---------------------------- MODULE Spec2Model ----------------------------
(***************************************************************************)
(* Model of the BJL binary layout codec (BJLConverter, BinaryReader,       *)
(* BinaryWriter) of scripts/SithasoLayoutEngine.js.                        *)
(*                                                                         *)
(* Representation.                                                         *)
(*   byte buffer   sequence of 0..255 (a Uint8Array)                      *)
(*   string        sequence of Unicode code points (BMP, below U+10000),   *)
(*                 so that .length, TextEncoder and TextDecoder can be     *)
(*                 computed as the platform computes them                  *)
(*   float32       its IEEE-754 bit pattern, as a signed 32-bit integer    *)
(*   JS object     sequence of [key, val] records in Object.keys order     *)
(*                 (array-index keys ascending, then insertion order)      *)
(*   JS value      [k, t, v]: k is the typeof-level kind, t the ValueType  *)
(*                 marker of a tagged object, v the payload as a sequence  *)
(*                 (<<n>> for a number, the code points of a string, the   *)
(*                 four shorts of a rect); a plain object is [k, t, m]     *)
(***************************************************************************)
EXTENDS Integers, Sequences, FiniteSets, TLC

VARIABLES
  doc,   \* the in-memory layout document (SithasoLayoutEngine.layout)
  enc,   \* the outcome of the last convertJsonToBjlToBytes(doc): [b, e]
  file,  \* the byte buffer handed to the last convertBjlToJsonFromBytes
  dec,   \* its outcome: [err, offset, design]
  pc,    \* "loaded", "encoded" or "decoded"
  variantWidth,   \* SithasoLayoutEngine.variantWidth
  variantHeight,  \* SithasoLayoutEngine.variantHeight
  calls,          \* the converter calls in progress: input, position, result
  readerOffset,   \* the offset of each BinaryReader in use
  writerBuffer,   \* the bytes of each BinaryWriter in use
  reader,         \* a BinaryReader used on its own: buffer, offset, last read
  writer,         \* a BinaryWriter used on its own: buffer, offset, last write
  designer        \* SithasoBJLDesigner and the Data[':kids'] of its engine's layout

vars ==
  <<doc, enc, file, dec, pc, variantWidth, variantHeight, calls, readerOffset,
    writerBuffer, reader, writer, designer>>

\* The state of the engine, and the state of the converter calls
engine == <<doc, enc, file, dec, pc, variantWidth, variantHeight>>
converter == <<calls, readerOffset, writerBuffer>>
\* The objects the other specifications use on their own
apart == <<reader, writer, designer>>

(* ------------------------------ bounds --------------------------------- *)

MaxDepth == 1
MaxVariants == 2
MaxControls == 2
MaxFiles == 1

(* ------------------------------ helpers -------------------------------- *)

RECURSIVE Flatten(_)
Flatten(ss) == IF ss = <<>> THEN <<>> ELSE Head(ss) \o Flatten(Tail(ss))

Take(s, n) == SubSeq(s, 1, IF n < Len(s) THEN n ELSE Len(s))
Drop(s, n) == SubSeq(s, n + 1, Len(s))

(* ------------------------------ strings -------------------------------- *)

\* TextEncoder.encode of one code point (UTF-8, BMP)
EncodeCodePoint(c) ==
  IF c < 128 THEN <<c>>
  ELSE IF c < 2048 THEN <<192 + (c \div 64), 128 + (c % 64)>>
  ELSE <<224 + (c \div 4096), 128 + ((c \div 64) % 64), 128 + (c % 64)>>

\* new TextEncoder().encode(s)
TextEncode(s) == Flatten([i \in 1..Len(s) |-> EncodeCodePoint(s[i])])

ReplacementChar == 65533

IsCont(b) == b >= 128 /\ b < 192

\* new TextDecoder().decode(bytes): non-fatal UTF-8, a malformed byte decodes
\* to U+FFFD
RECURSIVE TextDecode(_)
TextDecode(b) ==
  IF b = <<>> THEN <<>>
  ELSE IF b[1] < 128 THEN <<b[1]>> \o TextDecode(Tail(b))
  ELSE IF b[1] >= 194 /\ b[1] < 224 /\ Len(b) >= 2 /\ IsCont(b[2])
    THEN <<(b[1] - 192) * 64 + (b[2] - 128)>> \o TextDecode(Drop(b, 2))
  ELSE IF b[1] >= 224 /\ b[1] < 240 /\ Len(b) >= 3 /\ IsCont(b[2]) /\ IsCont(b[3])
          /\ (b[1] - 224) * 4096 + (b[2] - 128) * 64 + (b[3] - 128) >= 2048
    THEN <<(b[1] - 224) * 4096 + (b[2] - 128) * 64 + (b[3] - 128)>>
         \o TextDecode(Drop(b, 3))
  ELSE <<ReplacementChar>> \o TextDecode(Tail(b))

(* --------------------------- Binary Reader ----------------------------- *)
(* A read returns [v, o, ok]: the value, the reader offset after the read, *)
(* and ok = FALSE when the DataView access throws a RangeError.            *)

InBounds(buf, off, n) == off >= 0 /\ off + n <= Len(buf)

ToInt32(b0, b1, b2, b3) ==
  b0 + 256 * b1 + 65536 * b2 + 16777216 * (IF b3 >= 128 THEN b3 - 256 ELSE b3)

\* readByte() { return this.view.getUint8(this.offset++); }
readByte(buf, off) ==
  IF InBounds(buf, off, 1) THEN [v |-> buf[off + 1], o |-> off + 1, ok |-> TRUE]
  ELSE [v |-> 0, o |-> off + 1, ok |-> FALSE]

\* readSignedByte() { return this.view.getInt8(this.offset++); }
readSignedByte(buf, off) ==
  IF InBounds(buf, off, 1)
    THEN [v |-> IF buf[off + 1] >= 128 THEN buf[off + 1] - 256 ELSE buf[off + 1],
          o |-> off + 1, ok |-> TRUE]
  ELSE [v |-> 0, o |-> off + 1, ok |-> FALSE]

\* readInt(): getInt32(offset, true) throws before the offset is advanced
readInt(buf, off) ==
  IF InBounds(buf, off, 4)
    THEN [v |-> ToInt32(buf[off + 1], buf[off + 2], buf[off + 3], buf[off + 4]),
          o |-> off + 4, ok |-> TRUE]
  ELSE [v |-> 0, o |-> off, ok |-> FALSE]

\* readFloat(): the float32 is kept as its bit pattern
readFloat(buf, off) == readInt(buf, off)

\* An index of Uint8Array.slice on a buffer of n bytes: a negative index
\* counts from the end, and the result is clamped to 0..n
SliceIndex(i, n) ==
  IF i < 0 THEN (IF n + i > 0 THEN n + i ELSE 0) ELSE (IF i < n THEN i ELSE n)

\* readBytes(len): Uint8Array.slice clamps to the buffer and never throws;
\* the offset advances by len whatever was returned
readBytes(buf, off, len) ==
  [v |-> SubSeq(buf, SliceIndex(off, Len(buf)) + 1, SliceIndex(off + len, Len(buf))),
   o |-> off + len, ok |-> TRUE]

\* new BinaryReader(bytes): offset 0, nothing read yet
NewReaderOn(bytes) ==
  [buffer |-> bytes, offset |-> 0, op |-> "new", before |-> 0, size |-> 0,
   value |-> <<>>, threw |-> FALSE]

NoReader == NewReaderOn(<<>>)

(* --------------------------- Binary Writer ----------------------------- *)
(* A writer is the sequence of bytes written so far (getBuffer()); its     *)
(* offset is the length of that sequence.                                  *)

\* writeByte(v): setUint8(offset++, v & 0xff)
writeByte(v) == <<v % 256>>

\* writeInt(v): setInt32(offset, v | 0, true)
writeInt(v) ==
  <<v % 256, (v \div 256) % 256, (v \div 65536) % 256, (v \div 16777216) % 256>>

\* writeFloat(v): setFloat32(offset, v, true), v given as its bit pattern
writeFloat(v) == writeInt(v)

\* writeBytes(bytes)
writeBytes(bytes) == bytes

\* A patch that writes v at the writer offset instead of at `offset`
updateIntAtEnd(buf, offset, v) == buf \o writeInt(v)

\* updateInt(offset, v): overwrite the 4 bytes at offset, the writer offset
\* is not touched
updateInt(buf, offset, v) ==
  [i \in 1..Len(buf) |->
     IF i > offset /\ i <= offset + 4 THEN writeInt(v)[i - offset] ELSE buf[i]]

\* new Uint8Array(n): n zero bytes
Zeros(n) == [i \in 1..n |-> 0]

\* A growth step that allocates the new buffer without copying the old one
ensureNoCopy(buffer, offset, len) ==
  IF offset + len <= Len(buffer) THEN buffer
  ELSE Zeros((Len(buffer) + len) * 2)

\* ensure(len): the buffer after the capacity check of a write of len bytes
ensure(buffer, offset, len) ==
  IF offset + len <= Len(buffer) THEN buffer
  ELSE buffer \o Zeros((Len(buffer) + len) * 2 - Len(buffer))

\* view.setUint8 / setInt32 / setFloat32 / buffer.set(bytes, offset): the
\* buffer with `bytes` stored from offset on
setBytes(buffer, offset, bytes) ==
  [i \in 1..Len(buffer) |->
     IF i > offset /\ i <= offset + Len(bytes) THEN bytes[i - offset] ELSE buffer[i]]

\* getBuffer(): buffer.slice(0, offset)
getBuffer(buffer, offset) == SubSeq(buffer, 1, offset)

\* new BinaryWriter(size), with the bytes written so far kept aside in `log`
NewWriterOf(size) ==
  [buffer |-> Zeros(size), offset |-> 0, op |-> "new", before |-> 0, size |-> 0,
   log |-> <<>>, out |-> <<>>]

NoWriter == NewWriterOf(0)

(* ----------------------------- JS objects ------------------------------ *)

StrConstructor == <<99, 111, 110, 115, 116, 114, 117, 99, 116, 111, 114>>  \* "constructor"
StrToString == <<116, 111, 83, 116, 114, 105, 110, 103>>  \* "toString"
StrValueOf == <<118, 97, 108, 117, 101, 79, 102>>  \* "valueOf"
StrHasOwnProperty == <<104, 97, 115, 79, 119, 110, 80, 114, 111, 112, 101, 114, 116, 121>>  \* "hasOwnProperty"
StrIsPrototypeOf == <<105, 115, 80, 114, 111, 116, 111, 116, 121, 112, 101, 79, 102>>  \* "isPrototypeOf"
StrToLocaleString == <<116, 111, 76, 111, 99, 97, 108, 101, 83, 116, 114, 105, 110, 103>>  \* "toLocaleString"
StrUndefined == <<117, 110, 100, 101, 102, 105, 110, 101, 100>>  \* "undefined"

\* Names every object inherits from Object.prototype: `name in {}` is true
ObjectPrototypeNames ==
  {StrConstructor, StrToString, StrValueOf, StrHasOwnProperty, StrIsPrototypeOf,
   StrToLocaleString}

IsDigit(c) == c >= 48 /\ c <= 57

\* A canonical array-index property name ("0", "5", "10"; not "05", not "")
IsArrayIndex(s) ==
  /\ Len(s) >= 1 /\ Len(s) <= 9
  /\ \A i \in 1..Len(s) : IsDigit(s[i])
  /\ (Len(s) = 1 \/ s[1] # 48)

RECURSIVE ArrayIndexValue(_)
ArrayIndexValue(s) ==
  IF s = <<>> THEN 0
  ELSE 10 * ArrayIndexValue(SubSeq(s, 1, Len(s) - 1)) + (s[Len(s)] - 48)

\* Object.prototype.hasOwnProperty.call(obj, key)
HasOwn(obj, key) == \E i \in 1..Len(obj) : obj[i].key = key

\* key in obj (own or inherited)
InOp(obj, key) == HasOwn(obj, key) \/ key \in ObjectPrototypeNames

\* obj[key] of an own property
Get(obj, key) == obj[CHOOSE i \in 1..Len(obj) : obj[i].key = key].val

\* Object.keys(obj)
ObjectKeys(obj) == [i \in 1..Len(obj) |-> obj[i].key]

\* Where a new own property lands in Object.keys order
InsertAt(obj, key) ==
  IF IsArrayIndex(key)
    THEN Cardinality({i \in 1..Len(obj) :
           IsArrayIndex(obj[i].key) /\ ArrayIndexValue(obj[i].key) < ArrayIndexValue(key)})
  ELSE Len(obj)

\* obj[key] = val
ObjSet(obj, key, val) ==
  IF HasOwn(obj, key)
    THEN [i \in 1..Len(obj) |->
            IF obj[i].key = key THEN [key |-> key, val |-> val] ELSE obj[i]]
  ELSE Take(obj, InsertAt(obj, key)) \o <<[key |-> key, val |-> val]>>
       \o Drop(obj, InsertAt(obj, key))

\* An object literal { k1: v1, k2: v2, ... } given as <<k1, v1>>, <<k2, v2>>, ...
RECURSIVE ObjLit(_)
ObjLit(pairs) ==
  IF pairs = <<>> THEN <<>>
  ELSE ObjSet(ObjLit(SubSeq(pairs, 1, Len(pairs) - 1)),
              pairs[Len(pairs)][1], pairs[Len(pairs)][2])

(* ------------------------------ JS values ------------------------------ *)

CINT == 1
CSTRING == 2
CMAP == 3
ENDOFMAP == 4
BOOL == 5
CCOLOR == 6
CFLOAT == 7
CACHED_STRING == 9
RECT32 == 11
CNULL == 12

JsInt(n) == [k |-> "integer", t |-> 0, v |-> <<n>>]
JsDouble(bits) == [k |-> "double", t |-> 0, v |-> <<bits>>]
JsString(s) == [k |-> "string", t |-> 0, v |-> s]
JsBool(b) == [k |-> "boolean", t |-> 0, v |-> <<IF b THEN 1 ELSE 0>>]
JsNull == [k |-> "null", t |-> 0, v |-> <<>>]
JsUndefined == [k |-> "undefined", t |-> 0, v |-> <<>>]
JsObject(m) == [k |-> "object", t |-> 0, m |-> m]
\* { ValueType: t, Value: v }
Tagged(t, v) == [k |-> "tagged", t |-> t, v |-> v]

\* x || d for a number x (0 and a missing field are falsy)
OrDefault(x, d) == IF x = 0 THEN d ELSE x

FloatOne == 1065353216  \* 0x3F800000

\* !x for a float32 bit pattern: +0, -0 and NaN are falsy
FloatFalsy(bits) ==
  \/ bits = 0
  \/ bits = -2147483647 - 1
  \/ bits > 2139095040
  \/ (bits < 0 /\ bits > -8388608)

\* v.Scale || 1
ScaleOrOne(bits) == IF FloatFalsy(bits) THEN FloatOne ELSE bits

\* A header whose DesignerScript is not an array (a missing field)
NotAnArray == << <<-1>> >>

IsArray(x) == x # NotAnArray

(* ------------------------------ encoding ------------------------------- *)
(* A write pass returns [b, e]: the bytes it wrote and the message of the  *)
(* Error it threw ("" when it returned normally).                          *)

Ok(bytes) == [b |-> bytes, e |-> ""]
Throw(msg) == [b |-> <<>>, e |-> msg]
Cat(r1, r2) ==
  IF r1.e # "" THEN Throw(r1.e)
  ELSE IF r2.e # "" THEN Throw(r2.e)
  ELSE Ok(r1.b \o r2.b)

\* CompressedStreams / pako.gzip(bytes, {level: 1, mtime: 0, header: {os: 0}}):
\* an opaque deterministic function; the member starts with the gzip magic
GzipMagic == <<31, 139, 8>>
Gzip(bytes) == GzipMagic \o bytes

\* pako.ungzip(bytes): throws unless the input is a gzip member
Ungzip(bytes) ==
  IF Len(bytes) >= 3 /\ SubSeq(bytes, 1, 3) = GzipMagic
    THEN [v |-> Drop(bytes, 3), ok |-> TRUE]
  ELSE [v |-> <<>>, ok |-> FALSE]

\* _writeString(writer, s)
writeString(s) == writeInt(Len(TextEncode(s))) \o writeBytes(TextEncode(s))

\* The base-128 varint loop of _writeBinaryString
RECURSIVE Varint(_)
Varint(len) ==
  IF len \div 128 # 0 THEN writeByte((len % 128) + 128) \o Varint(len \div 128)
  ELSE writeByte(len % 128)

\* _writeBinaryString(writer, s): the length written is text.length
writeBinaryString(s) == Varint(Len(s)) \o writeBytes(TextEncode(s))

\* scriptsCopy[idx] || ""
ScriptAt(scripts, idx) == IF idx <= Len(scripts) THEN scripts[idx] ELSE <<>>

\* The per-variant loop of _writeScripts
RECURSIVE writeScriptVariants(_, _, _)
writeScriptVariants(scripts, variants, i) ==
  IF i > Len(variants) THEN <<>>
  ELSE writeFloat(ScaleOrOne(variants[i].Scale))
       \o writeInt(OrDefault(variants[i].Width, 0))
       \o writeInt(OrDefault(variants[i].Height, 0))
       \o writeBinaryString(ScriptAt(scripts, i + 1))
       \o writeScriptVariants(scripts, variants, i + 1)

\* _writeScripts(scripts, variants)
writeScripts(scripts, variants) ==
  Gzip(writeBinaryString(ScriptAt(scripts, 1))
       \o writeInt(Len(variants))
       \o writeScriptVariants(scripts, variants, 1))

\* _writeVariant(writer, v)
writeVariant(v) ==
  writeFloat(ScaleOrOne(v.Scale)) \o writeInt(OrDefault(v.Width, 0))
  \o writeInt(OrDefault(v.Height, 0))

\* _writeStringsCacheInOrder(writer, _cache, order)
writeStringsCacheInOrder(order) ==
  writeInt(Len(order)) \o Flatten([i \in 1..Len(order) |-> writeString(order[i])])

\* _writeCachedString(writer, cache, s)
writeCachedString(cache, s) ==
  IF Len(ObjectKeys(cache)) = 0 THEN Ok(writeString(s))
  ELSE IF HasOwn(cache, s) THEN Ok(writeInt(Get(cache, s)))
  ELSE Throw("String not in cache")

\* if (!(s in cache)) cache[s] = Object.keys(cache).length;
CachePut(cache, s) ==
  IF InOp(cache, s) THEN cache ELSE ObjSet(cache, s, Len(ObjectKeys(cache)))

\* The first loop of _writeLayoutHeader over the control headers
RECURSIVE HeaderCache(_, _)
HeaderCache(controlsHeaders, n) ==
  IF n = 0 THEN <<>>
  ELSE CachePut(CachePut(CachePut(HeaderCache(controlsHeaders, n - 1),
                                  controlsHeaders[n].Name),
                         controlsHeaders[n].JavaType),
                controlsHeaders[n].DesignerType)

\* The tempWriter loop of _writeLayoutHeader
RECURSIVE writeControls(_, _, _)
writeControls(controlsHeaders, cache, i) ==
  IF i > Len(controlsHeaders) THEN Ok(<<>>)
  ELSE Cat(writeCachedString(cache, controlsHeaders[i].Name),
       Cat(writeCachedString(cache, controlsHeaders[i].JavaType),
       Cat(writeCachedString(cache, controlsHeaders[i].DesignerType),
           writeControls(controlsHeaders, cache, i + 1))))

\* header?.Version || 4
HeaderVersion(header) == OrDefault(header.Version, 4)

\* The script block of _writeLayoutHeader
ScriptBytes(header, variants) ==
  IF IsArray(header.DesignerScript)
    THEN writeScripts(header.DesignerScript, variants)
  ELSE <<>>

\* The same step writing a grid size whatever the version
writeGridSizeAlways(header, version) == writeInt(OrDefault(header.GridSize, 10))

\* if (version >= 4) writer.writeInt(header?.GridSize || 10);
writeGridSize(header, version) ==
  IF version >= 4 THEN writeInt(OrDefault(header.GridSize, 10)) ELSE <<>>

\* _writeLayoutHeader up to the backpatch: everything the writer holds at
\* finalPosition, the header-length field still 0
writeHeaderFields(header, variants) ==
  LET version == HeaderVersion(header)
      controlsHeaders == header.ControlsHeaders
      cache == HeaderCache(controlsHeaders, Len(controlsHeaders))
      tempWriter == Cat(Ok(writeInt(Len(controlsHeaders))),
                        writeControls(controlsHeaders, cache, 1))
      cacheKeys == ObjectKeys(cache)
      files == header.Files
      scriptBytes == ScriptBytes(header, variants)
  IN IF tempWriter.e # "" THEN Throw(tempWriter.e)
     ELSE Ok(writeInt(version) \o writeInt(0)
             \o writeGridSize(header, version)
             \o writeInt(Len(cacheKeys))
             \o Flatten([i \in 1..Len(cacheKeys) |-> writeString(cacheKeys[i])])
             \o writeBytes(tempWriter.b)
             \o writeInt(Len(files))
             \o Flatten([i \in 1..Len(files) |-> writeString(files[i])])
             \o writeInt(Len(scriptBytes)) \o writeBytes(scriptBytes))

\* _writeLayoutHeader(header, writer, variants)
writeLayoutHeader(header, variants) ==
  LET version == HeaderVersion(header)
      headerSizePosition == Len(writeInt(version))
      written == writeHeaderFields(header, variants)
      finalPosition == Len(written.b)
  IN IF written.e # "" THEN Throw(written.e)
     ELSE Ok(updateInt(written.b, headerSizePosition,
                       finalPosition - headerSizePosition - 4))

\* toString(16) of one byte, lowercase
LowerHexDigit(d) == IF d < 10 THEN 48 + d ELSE 87 + d
ToString16(b) ==
  IF b < 16 THEN <<LowerHexDigit(b)>>
  ELSE <<LowerHexDigit(b \div 16), LowerHexDigit(b % 16)>>

\* No padding at all
PadStartNone(s) == s

\* padStart(2, '0')
PadStart2(s) == IF Len(s) < 2 THEN <<48>> \o s ELSE s

\* String.prototype.toUpperCase on ASCII
ToUpperCase(s) ==
  [i \in 1..Len(s) |-> IF s[i] >= 97 /\ s[i] <= 122 THEN s[i] - 32 ELSE s[i]]

\* _hexFromBytes(data)
hexFromBytes(data) ==
  ToUpperCase(Flatten([i \in 1..Len(data) |-> PadStart2(ToString16(data[i]))]))

IsHexChar(c) ==
  IsDigit(c) \/ (c >= 97 /\ c <= 102) \/ (c >= 65 /\ c <= 70)

HexValue(c) == IF IsDigit(c) THEN c - 48 ELSE IF c >= 97 THEN c - 87 ELSE c - 55

\* replace(/[^0-9a-fA-F]/g, '')
RECURSIVE CleanHex(_)
CleanHex(s) ==
  IF s = <<>> THEN <<>>
  ELSE (IF IsHexChar(s[1]) THEN <<s[1]>> ELSE <<>>) \o CleanHex(Tail(s))

\* _hexToBytes(hex)
hexToBytes(hex) ==
  LET clean == CleanHex(hex)
  IN [j \in 1..(Len(clean) \div 2) |->
        16 * HexValue(clean[2 * j - 1]) + HexValue(clean[2 * j])]

\* The same four shorts written high byte first
shortsToBytesBigEndian(shorts) ==
  Flatten([i \in 1..Len(shorts) |->
             <<(shorts[i] \div 256) % 256, shorts[i] % 256>>])

\* _shortsToBytes(shorts): setInt16(i * 2, shorts[i], true)
shortsToBytes(shorts) ==
  Flatten([i \in 1..Len(shorts) |->
             <<shorts[i] % 256, (shorts[i] \div 256) % 256>>])

\* An insertion that pushes the string onto the order list every time
CollectPutAlways(st, s) ==
  [cache |-> IF InOp(st.cache, s) THEN st.cache
             ELSE ObjSet(st.cache, s, Len(ObjectKeys(st.cache))),
   order |-> Append(st.order, s)]

\* _collectStringsInOrder: the pre-pass state is [cache, order]
CollectPut(st, s) ==
  IF InOp(st.cache, s) THEN st
  ELSE [cache |-> ObjSet(st.cache, s, Len(ObjectKeys(st.cache))),
        order |-> Append(st.order, s)]

RECURSIVE collectStringsInOrder(_, _, _)
collectStringsInOrder(data, i, st) ==
  IF i > Len(data) THEN st
  ELSE LET val == data[i].val
           st1 == CollectPut(st, data[i].key)
           st2 == IF val.k = "object" THEN collectStringsInOrder(val.m, 1, st1)
                  ELSE IF val.k = "tagged"
                    THEN (IF val.t = CSTRING THEN CollectPut(st1, val.v) ELSE st1)
                  ELSE IF val.k = "string" THEN CollectPut(st1, val.v)
                  ELSE st1
       IN collectStringsInOrder(data, i + 1, st2)

\* The same switch writing a float under the integer tag
writeTaggedFloatAsInt(val) ==
  IF val.t = CFLOAT THEN writeByte(CINT) \o writeFloat(val.v[1])
  ELSE writeByte(val.t)
       \o (IF val.t = CSTRING THEN writeString(val.v)
           ELSE IF val.t = CCOLOR THEN writeBytes(hexToBytes(Drop(val.v, 2)))
           ELSE IF val.t = RECT32 THEN writeBytes(shortsToBytes(val.v))
           ELSE <<>>)

\* The payload switch of _writeMap for an object with a ValueType
writeTagged(val) ==
  writeByte(val.t)
  \o (IF val.t = CSTRING THEN writeString(val.v)
      ELSE IF val.t = CFLOAT THEN writeFloat(val.v[1])
      ELSE IF val.t = CCOLOR THEN writeBytes(hexToBytes(Drop(val.v, 2)))
      ELSE IF val.t = RECT32 THEN writeBytes(shortsToBytes(val.v))
      ELSE <<>>)

\* A nested map ended by the tag byte alone, without the empty key
NestedTerminatorNoKey == writeByte(ENDOFMAP)

\* The end of a nested map in _writeMap:
\* this._writeString(writer, ''); writer.writeByte(TYPE_CODES.ENDOFMAP);
NestedTerminator == writeString(<<>>) \o writeByte(ENDOFMAP)

\* _writeMap(writer, m, cache)
RECURSIVE writeMap(_, _, _)
writeMap(m, cache, i) ==
  IF i > Len(m) THEN Ok(<<>>)
  ELSE LET val == m[i].val
           payload ==
             IF val.k = "tagged" THEN Ok(writeTagged(val))
             ELSE IF val.k = "object"
               THEN Cat(Ok(writeByte(CMAP)),
                    Cat(writeMap(val.m, cache, 1), Ok(NestedTerminator)))
             ELSE IF val.k = "integer" THEN Ok(writeByte(CINT) \o writeInt(val.v[1]))
             ELSE IF val.k = "string"
               THEN Cat(Ok(writeByte(CACHED_STRING)), writeCachedString(cache, val.v))
             ELSE IF val.k = "boolean"
               THEN Ok(writeByte(BOOL) \o writeByte(IF val.v[1] = 1 THEN 1 ELSE 0))
             ELSE IF val.k = "null" THEN Ok(writeByte(CNULL))
             ELSE Ok(<<>>)
       IN Cat(writeCachedString(cache, m[i].key),
          Cat(payload, writeMap(m, cache, i + 1)))

\* A root map ended by the tag byte alone, without the empty key
RootTerminatorNoKey == writeByte(ENDOFMAP)

\* The end of the root map in _writeAllLayout:
\* this._writeString(tempWriter, ''); tempWriter.writeByte(TYPE_CODES.ENDOFMAP);
RootTerminator == writeString(<<>>) \o writeByte(ENDOFMAP)

\* _writeAllLayout(writer, variants, data, _layoutHeader)
writeAllLayout(variants, data) ==
  LET st == collectStringsInOrder(data, 1, [cache |-> <<>>, order |-> <<>>])
      tempWriter ==
        Cat(Ok(writeInt(Len(variants))
               \o Flatten([i \in 1..Len(variants) |-> writeVariant(variants[i])])),
        Cat(writeMap(data, st.cache, 1), Ok(RootTerminator)))
  IN IF tempWriter.e # "" THEN Throw(tempWriter.e)
     ELSE Ok(writeStringsCacheInOrder(st.order) \o writeBytes(tempWriter.b)
             \o writeInt(0))

\* The same conversion writing the two flag bytes in the other order
convertJsonToBjlToBytesFlagsSwapped(json) ==
  Cat(writeLayoutHeader(json.LayoutHeader, json.Variants),
  Cat(writeAllLayout(json.Variants, json.Data),
      Ok(writeByte(IF json.MaterialIcons THEN 1 ELSE 0)
         \o writeByte(IF json.FontAwesome THEN 1 ELSE 0))))

\* convertJsonToBjlToBytes(json)
convertJsonToBjlToBytes(json) ==
  Cat(writeLayoutHeader(json.LayoutHeader, json.Variants),
  Cat(writeAllLayout(json.Variants, json.Data),
      Ok(writeByte(IF json.FontAwesome THEN 1 ELSE 0)
         \o writeByte(IF json.MaterialIcons THEN 1 ELSE 0))))

(* ------------------------------ decoding ------------------------------- *)
(* A read returns [v, o, ok] as for the reader: ok = FALSE when a          *)
(* RangeError propagates out of it.                                        *)

Fail(off) == [v |-> <<>>, o |-> off, ok |-> FALSE]

\* Statement sequencing in a reading method: the statements after a read
\* (K, given the read's result) run only when the read did not throw
Then(r, K(_)) == IF r.ok THEN K(r) ELSE Fail(r.o)

\* _readString(reader)
readString(buf, off) ==
  Then(readInt(buf, off), LAMBDA len :
  Then(readBytes(buf, len.o, len.v), LAMBDA data :
    [v |-> TextDecode(data.v), o |-> data.o, ok |-> TRUE]))

\* The loop of _loadStringsCache
RECURSIVE readStrings(_, _, _)
readStrings(buf, off, n) ==
  IF n <= 0 THEN [v |-> <<>>, o |-> off, ok |-> TRUE]
  ELSE Then(readString(buf, off), LAMBDA s :
       Then(readStrings(buf, s.o, n - 1), LAMBDA rest :
         [v |-> <<s.v>> \o rest.v, o |-> rest.o, ok |-> TRUE]))

\* _loadStringsCache(reader): new Array(count) throws for a negative count
loadStringsCache(buf, off) ==
  Then(readInt(buf, off), LAMBDA count :
    IF count.v < 0 THEN Fail(count.o)
    ELSE readStrings(buf, count.o, count.v))

\* _readCachedString(reader, cache): an index outside the table reads as
\* undefined
readCachedString(buf, off, cache) ==
  IF Len(cache) = 0 THEN readString(buf, off)
  ELSE LET idx == readInt(buf, off)
       IN IF ~idx.ok THEN Fail(idx.o)
          ELSE [v |-> IF idx.v >= 0 /\ idx.v < Len(cache) THEN cache[idx.v + 1]
                      ELSE StrUndefined,
                o |-> idx.o, ok |-> TRUE]

\* getInt16(i, true) of two bytes
ToInt16(b0, b1) == b0 + 256 * (IF b1 >= 128 THEN b1 - 256 ELSE b1)

\* The RECT32 case of _readMap: a DataView over the slice, so a short slice
\* throws
readRect(buf, off) ==
  LET d == readBytes(buf, off, 8)
  IN IF Len(d.v) < 8 THEN Fail(d.o)
     ELSE [v |-> Tagged(RECT32, [i \in 1..4 |-> ToInt16(d.v[2 * i - 1], d.v[2 * i])]),
           o |-> d.o, ok |-> TRUE]

KnownTypes == {CINT, CACHED_STRING, CFLOAT, CSTRING, BOOL, CMAP, CNULL, CCOLOR, RECT32}

\* The switch of _readMap for a value that is not a nested map
readValue(buf, off, cache, type) ==
  IF type = CINT
    THEN LET r == readInt(buf, off)
         IN [v |-> JsInt(r.v), o |-> r.o, ok |-> r.ok]
  ELSE IF type = CACHED_STRING
    THEN LET r == readCachedString(buf, off, cache)
         IN [v |-> JsString(r.v), o |-> r.o, ok |-> r.ok]
  ELSE IF type = CFLOAT
    THEN LET r == readFloat(buf, off)
         IN [v |-> Tagged(CFLOAT, <<r.v>>), o |-> r.o, ok |-> r.ok]
  ELSE IF type = CSTRING
    THEN LET r == readString(buf, off)
         IN [v |-> Tagged(CSTRING, r.v), o |-> r.o, ok |-> r.ok]
  ELSE IF type = BOOL
    THEN LET r == readSignedByte(buf, off)
         IN [v |-> JsBool(r.v = 1), o |-> r.o, ok |-> r.ok]
  ELSE IF type = CNULL
    THEN [v |-> Tagged(CNULL, <<>>), o |-> off, ok |-> TRUE]
  ELSE IF type = CCOLOR
    THEN LET d == readBytes(buf, off, 4)
         IN [v |-> Tagged(CCOLOR, <<48, 120>> \o hexFromBytes(d.v)),
             o |-> d.o, ok |-> TRUE]
  ELSE readRect(buf, off)

\* An unrecognized value tag answered with an empty map
DefaultCaseEmpty(map, off) == [v |-> <<>>, o |-> off, ok |-> TRUE]

\* An unrecognized value tag treated as an exception
DefaultCaseThrows(map, off) == Fail(off)

\* default: return map;  (an unrecognized value tag)
DefaultCase(map, off) == [v |-> map, o |-> off, ok |-> TRUE]

\* _readMap(reader, cache): the while loop, with the map built so far
RECURSIVE readMapLoop(_, _, _, _)
readMapLoop(buf, off, cache, map) ==
  Then(readCachedString(buf, off, cache), LAMBDA key :
  Then(readSignedByte(buf, key.o), LAMBDA type :
    IF type.v = ENDOFMAP THEN [v |-> map, o |-> type.o, ok |-> TRUE]
    ELSE IF type.v \notin KnownTypes THEN DefaultCase(map, type.o)
    ELSE Then(IF type.v = CMAP
                THEN Then(readMapLoop(buf, type.o, cache, <<>>), LAMBDA nested :
                       [v |-> JsObject(nested.v), o |-> nested.o, ok |-> TRUE])
              ELSE readValue(buf, type.o, cache, type.v),
              LAMBDA value :
                readMapLoop(buf, value.o, cache, ObjSet(map, key.v, value.v)))))

readMap(buf, off, cache) == readMapLoop(buf, off, cache, <<>>)

\* The varint loop of _readBinaryString: length += (b & 0x7f) << shift
RECURSIVE readVarint(_, _, _)
readVarint(buf, off, weight) ==
  Then(readSignedByte(buf, off), LAMBDA b :
    IF b.v = b.v % 128 THEN [v |-> b.v * weight, o |-> b.o, ok |-> TRUE]
    ELSE Then(readVarint(buf, b.o, weight * 128), LAMBDA rest :
           [v |-> (b.v % 128) * weight + rest.v, o |-> rest.o, ok |-> TRUE]))

\* _readBinaryString(reader)
readBinaryString(buf, off) ==
  Then(readVarint(buf, off, 1), LAMBDA length :
  Then(readBytes(buf, length.o, length.v), LAMBDA data :
    [v |-> TextDecode(data.v), o |-> data.o, ok |-> TRUE]))

\* _readVariantFromStream(reader)
readVariantFromStream(buf, off) ==
  Then(readFloat(buf, off), LAMBDA scale :
  Then(readInt(buf, scale.o), LAMBDA width :
  Then(readInt(buf, width.o), LAMBDA height :
    [v |-> [Scale |-> scale.v, Width |-> width.v, Height |-> height.v],
     o |-> height.o, ok |-> TRUE])))

\* The per-variant loop of _readScripts
RECURSIVE readVariantScripts(_, _, _)
readVariantScripts(buf, off, n) ==
  IF n <= 0 THEN [v |-> <<>>, o |-> off, ok |-> TRUE]
  ELSE Then(readVariantFromStream(buf, off), LAMBDA variant :
       Then(readBinaryString(buf, variant.o), LAMBDA s :
       Then(readVariantScripts(buf, s.o, n - 1), LAMBDA rest :
         [v |-> <<s.v>> \o rest.v, o |-> rest.o, ok |-> TRUE])))

\* The try block of _readScripts after pako.ungzip, on the decompressed bytes
readScriptStream(script) ==
  Then(readBinaryString(script, 0), LAMBDA global :
  Then(readInt(script, global.o), LAMBDA NumberOfVariants :
  Then(readVariantScripts(script, NumberOfVariants.o, NumberOfVariants.v),
       LAMBDA rest :
         [v |-> <<global.v>> \o rest.v, o |-> rest.o, ok |-> TRUE])))

\* The try block of _readScripts, on the raw block
parseScripts(rawData) ==
  IF Ungzip(rawData).ok THEN readScriptStream(Ungzip(rawData).v) ELSE Fail(0)

\* A catch clause that lets the exception through
CatchRethrows(res, off) == [v |-> res.v, o |-> off, ok |-> res.ok]

\* catch (_e) { return []; } around the try block, the reader being at off
CatchReturnsEmpty(res, off) ==
  [v |-> IF res.ok THEN res.v ELSE <<>>, o |-> off, ok |-> TRUE]

\* _readScripts(reader)
readScripts(buf, off) ==
  Then(readInt(buf, off), LAMBDA len :
  Then(readBytes(buf, len.o, len.v), LAMBDA rawData :
    CatchReturnsEmpty(parseScripts(rawData.v), rawData.o)))

\* The same loop resolving each reference in a table that is not the
\* header's own (here: that table without its first string)
RECURSIVE readControlsOtherTable(_, _, _, _)
readControlsOtherTable(buf, off, cache, n) ==
  IF n <= 0 THEN [v |-> <<>>, o |-> off, ok |-> TRUE]
  ELSE Then(readCachedString(buf, off, Tail(cache)), LAMBDA name :
       Then(readCachedString(buf, name.o, Tail(cache)), LAMBDA javaType :
       Then(readCachedString(buf, javaType.o, Tail(cache)), LAMBDA designerType :
       Then(readControlsOtherTable(buf, designerType.o, cache, n - 1), LAMBDA rest :
         [v |-> <<[Name |-> name.v, JavaType |-> javaType.v,
                   DesignerType |-> designerType.v]>> \o rest.v,
          o |-> rest.o, ok |-> TRUE]))))

\* The control-header loop of _readLayoutHeader
RECURSIVE readControls(_, _, _, _)
readControls(buf, off, cache, n) ==
  IF n <= 0 THEN [v |-> <<>>, o |-> off, ok |-> TRUE]
  ELSE Then(readCachedString(buf, off, cache), LAMBDA name :
       Then(readCachedString(buf, name.o, cache), LAMBDA javaType :
       Then(readCachedString(buf, javaType.o, cache), LAMBDA designerType :
       Then(readControls(buf, designerType.o, cache, n - 1), LAMBDA rest :
         [v |-> <<[Name |-> name.v, JavaType |-> javaType.v,
                   DesignerType |-> designerType.v]>> \o rest.v,
          o |-> rest.o, ok |-> TRUE]))))

\* const h = { Version: 0, GridSize: 10, ControlsHeaders: [], Files: [], DesignerScript: [] }
EmptyHeader ==
  [Version |-> 0, GridSize |-> 10, ControlsHeaders |-> <<>>, Files |-> <<>>,
   DesignerScript |-> <<>>]

\* The same early return with the threshold one lower
HeaderStopsBelowTwo(version) == version < 2

\* if (version < 3) return h;
HeaderStops(version) == version < 3

\* if (version >= 4) h.GridSize = reader.readInt();  after reader.offset += 4
readGridSize(buf, off, version) ==
  IF version >= 4 THEN readInt(buf, off + 4)
  ELSE [v |-> EmptyHeader.GridSize, o |-> off + 4, ok |-> TRUE]

\* _readLayoutHeader(reader)
readLayoutHeader(buf) ==
  Then(readInt(buf, 0), LAMBDA version :
    IF HeaderStops(version.v)
      THEN [v |-> [EmptyHeader EXCEPT !.Version = version.v], o |-> version.o,
            ok |-> TRUE]
    ELSE
  Then(readGridSize(buf, version.o, version.v), LAMBDA gridSize :
  Then(loadStringsCache(buf, gridSize.o), LAMBDA cache :
  Then(readInt(buf, cache.o), LAMBDA cCount :
  Then(readControls(buf, cCount.o, cache.v, cCount.v), LAMBDA controls :
  Then(readInt(buf, controls.o), LAMBDA fCount :
  Then(readStrings(buf, fCount.o, fCount.v), LAMBDA files :
  Then(readScripts(buf, files.o), LAMBDA scripts :
    [v |-> [Version |-> version.v, GridSize |-> gridSize.v,
            ControlsHeaders |-> controls.v, Files |-> files.v,
            DesignerScript |-> scripts.v],
     o |-> scripts.o, ok |-> TRUE]))))))))

\* The variant loop of convertBjlToJsonFromBytes
RECURSIVE readVariants(_, _, _)
readVariants(buf, off, n) ==
  IF n <= 0 THEN [v |-> <<>>, o |-> off, ok |-> TRUE]
  ELSE Then(readVariantFromStream(buf, off), LAMBDA variant :
       Then(readVariants(buf, variant.o, n - 1), LAMBDA rest :
         [v |-> <<variant.v>> \o rest.v, o |-> rest.o, ok |-> TRUE]))

EmptyDesign ==
  [LayoutHeader |-> EmptyHeader, Variants |-> <<>>, Data |-> <<>>,
   FontAwesome |-> FALSE, MaterialIcons |-> FALSE]

UnsupportedVersion == "Unsupported BJL version"

\* if (header.Version < 3) throw new Error("Unsupported BJL version");
IsUnsupported(header) == header.ok /\ header.v.Version < 3

\* convertBjlToJsonFromBytes(bytes) after the header: the design, or the
\* offset at which the call threw
readDesign(bytes, header) ==
  IF IsUnsupported(header) THEN Fail(header.o)
  ELSE
  Then(header, LAMBDA h :
  Then(loadStringsCache(bytes, h.o), LAMBDA cache :
  Then(readInt(bytes, cache.o), LAMBDA variantCount :
  Then(readVariants(bytes, variantCount.o, variantCount.v), LAMBDA variants :
  Then(readMap(bytes, variants.o, cache.v), LAMBDA data :
  Then(readInt(bytes, data.o), LAMBDA footer :
  Then(readSignedByte(bytes, footer.o), LAMBDA fontAwesome :
  Then(readSignedByte(bytes, fontAwesome.o), LAMBDA materialIcons :
    [v |-> [LayoutHeader |-> h.v, Variants |-> variants.v, Data |-> data.v,
            FontAwesome |-> fontAwesome.v = 1,
            MaterialIcons |-> materialIcons.v = 1],
     o |-> materialIcons.o, ok |-> TRUE]))))))))

\* The outcome of the call: [err, offset, design], err = "" when it resolves,
\* offset the reader offset when it ended
Outcome(res, unsupported) ==
  [err |-> IF res.ok THEN ""
           ELSE IF unsupported THEN UnsupportedVersion ELSE "RangeError",
   offset |-> res.o,
   design |-> IF res.ok THEN res.v ELSE EmptyDesign]

\* convertBjlToJsonFromBytes(bytes)
convertBjlToJsonFromBytes(bytes) ==
  Outcome(readDesign(bytes, readLayoutHeader(bytes)),
          IsUnsupported(readLayoutHeader(bytes)))

(* ------------------------------ documents ------------------------------ *)

StrTitle == <<116, 105, 116, 108, 101>>  \* "title"
StrHello == <<72, 101, 108, 108, 111>>  \* "Hello"
StrA == <<97>>  \* "a"
StrB == <<98>>  \* "b"
StrN == <<110>>  \* "n"
StrKids == <<58, 107, 105, 100, 115>>  \* ":kids"
Str5 == <<53>>  \* "5"
Str10 == <<49, 48>>  \* "10"
StrEacute == <<233>>  \* "e" with acute accent, U+00E9
StrEuroX == <<8364, 120>>  \* euro sign U+20AC, "x"
StrButton1 == <<66, 117, 116, 116, 111, 110, 49>>  \* "Button1"
StrLabel1 == <<76, 97, 98, 101, 108, 49>>  \* "Label1"
StrB4XView == <<66, 52, 88, 86, 105, 101, 119>>  \* "B4XView"
StrButton == <<66, 117, 116, 116, 111, 110>>  \* "Button"
StrLabel == <<76, 97, 98, 101, 108>>  \* "Label"
StrLogo == <<108, 111, 103, 111, 46, 112, 110, 103>>  \* "logo.png"
StrScript == <<65, 117, 116, 111, 83, 99, 97, 108, 101>>  \* "AutoScale"
StrColor == <<48, 120, 70, 70, 48, 48, 56, 48, 52, 48>>  \* "0xFF008040"

FloatOneAndHalf == FloatOne + 4194304  \* 1.5 = 0x3FC00000

Variant(scale, width, height) == [Scale |-> scale, Width |-> width, Height |-> height]

Control(name, javaType, designerType) ==
  [Name |-> name, JavaType |-> javaType, DesignerType |-> designerType]

Header(version, gridSize, controls, files, script) ==
  [Version |-> version, GridSize |-> gridSize, ControlsHeaders |-> controls,
   Files |-> files, DesignerScript |-> script]

Document(header, variants, data, fontAwesome, materialIcons) ==
  [LayoutHeader |-> header, Variants |-> variants, Data |-> data,
   FontAwesome |-> fontAwesome, MaterialIcons |-> materialIcons]

\* All sequences over S of length at most n
RECURSIVE SeqsUpTo(_, _)
SeqsUpTo(S, n) ==
  IF n = 0 THEN {<<>>}
  ELSE SeqsUpTo(S, n - 1)
       \cup {Append(s, x) : s \in {t \in SeqsUpTo(S, n - 1) : Len(t) = n - 1}, x \in S}

\* One script per slot: the global script and one per variant
ExactScripts(n, s) == [i \in 1..(n + 1) |-> s]

V600 == Variant(FloatOne, 600, 600)
V320 == Variant(FloatOneAndHalf, 320, 480)
VariantPool == {V600, V320, Variant(0, 0, 100)}

ControlPool ==
  {Control(StrButton1, StrB4XView, StrButton),
   Control(StrLabel1, StrB4XView, StrLabel),
   Control(StrConstructor, StrB4XView, StrButton),
   Control(Str5, StrToString, StrValueOf),
   Control(StrButton1, Str5, StrButton),
   Control(StrToString, StrToString, StrValueOf)}

UnknownTags == {0, 8, 10, 13, 255}

ColorBytePool == {0, 10, 128, 255}
ShortPool == {-32768, -5, 10, 300}

\* The title map of the end-to-end scenario
TitleData == ObjLit(<< <<StrTitle, Tagged(CSTRING, StrHello)>> >>)

DataPool ==
  {TitleData,
   <<>>,
   ObjLit(<< <<StrA, JsInt(600)>>, <<StrB, JsString(StrHello)>>, <<StrTitle, JsBool(TRUE)>> >>),
   ObjLit(<< <<StrA, Tagged(CFLOAT, <<FloatOneAndHalf>>)>>, <<StrB, Tagged(CNULL, <<>>)>>,
             <<StrN, JsBool(FALSE)>> >>),
   ObjLit(<< <<StrKids, JsObject(<<>>)>> >>),
   ObjLit(<< <<StrA, JsInt(1)>>, <<StrConstructor, JsInt(2)>> >>),
   ObjLit(<< <<StrConstructor, JsInt(1)>> >>),
   ObjLit(<< <<StrB, JsString(StrToString)>>, <<StrA, JsInt(1)>> >>),
   ObjLit(<< <<StrA, JsInt(2)>>, <<Str10, JsString(StrA)>>, <<Str5, JsInt(-5)>> >>),
   ObjLit(<< <<StrA, JsString(StrA)>>, <<<<>>, JsString(<<>>)>> >>),
   ObjLit(<< <<StrEacute, Tagged(CSTRING, StrEuroX)>>, <<StrB, JsString(StrEacute)>> >>),
   ObjLit(<< <<StrA, Tagged(CCOLOR, StrColor)>>,
             <<StrB, Tagged(RECT32, <<10, -5, 200, 300>>)>> >>),
   ObjLit(<< <<StrA, JsNull>>, <<StrB, JsInt(-2147483647)>> >>)}
  \cup {ObjLit(<< <<StrA, JsInt(-5)>>, <<StrN, Tagged(u, <<>>)>>, <<StrB, JsString(StrA)>> >>) :
          u \in UnknownTags}
  \cup {ObjLit(<< <<StrN, Tagged(u, <<>>)>> >>) : u \in UnknownTags}
  \cup {ObjLit(<< <<StrKids, JsObject(TitleData)>>, <<StrN, Tagged(u, <<>>)>> >>) :
          u \in UnknownTags}

\* { ":kids": m, "n": 1 }, d levels deep
RECURSIVE Nest(_, _)
Nest(m, d) ==
  IF d = 0 THEN m
  ELSE ObjLit(<< <<StrKids, JsObject(Nest(m, d - 1))>>, <<StrN, JsInt(1)>> >>)

ColorData ==
  {ObjLit(<< <<StrA, Tagged(CCOLOR, <<48, 120>> \o s)>> >>) :
     s \in {Flatten([i \in 1..4 |-> <<(IF b[i] \div 16 < 10 THEN 48 ELSE 55) + (b[i] \div 16),
                                      (IF b[i] % 16 < 10 THEN 48 ELSE 55) + (b[i] % 16)>>]) :
              b \in [1..4 -> ColorBytePool]}}

RectData ==
  {ObjLit(<< <<StrA, Tagged(RECT32, r)>> >>) : r \in [1..4 -> ShortPool]}

\* A map whose keys and values are also control-header strings
SharedData ==
  ObjLit(<< <<StrButton, JsString(StrButton1)>>, <<StrA, JsString(StrB4XView)>>,
            <<StrLabel, JsInt(1)>> >>)

\* Maps with values outside the closed set: a bare non-integer number, an
\* undefined value, markers carrying the tag of a bare kind
LooseData ==
  {ObjLit(<< <<StrA, JsDouble(FloatOneAndHalf)>> >>),
   ObjLit(<< <<StrA, JsUndefined>>, <<StrB, JsInt(1)>> >>),
   ObjLit(<< <<StrA, Tagged(CINT, <<5>>)>> >>),
   ObjLit(<< <<StrA, JsInt(5)>>, <<StrB, Tagged(BOOL, <<1>>)>> >>)}

BaseHeader == Header(4, 10, <<>>, <<>>, <<<<>>>>)

\* The document of the end-to-end scenario
ScenarioDoc == Document(BaseHeader, <<V600>>, TitleData, TRUE, FALSE)

DocSet ==
  {ScenarioDoc}
  \cup {Document(Header(v, 10, <<>>, <<>>, ExactScripts(1, <<>>)), <<V600>>, Nest(d, n), TRUE, FALSE) :
     v \in {3, 4}, d \in DataPool, n \in 0..MaxDepth}
  \cup {Document(BaseHeader, <<V600>>, d, FALSE, TRUE) : d \in ColorData \cup RectData}
  \cup {Document(BaseHeader, <<>>, Nest(d, n), TRUE, FALSE) : d \in LooseData, n \in 0..MaxDepth}
  \cup {Document(Header(v, g, <<>>, <<>>, ExactScripts(0, StrScript)), <<>>, TitleData, fa, mi) :
          v \in {-1, 0, 2, 3, 4, 5}, g \in {0, 10, 20}, fa \in BOOLEAN, mi \in BOOLEAN}
  \cup {Document(Header(v, 10, c, f, ExactScripts(0, <<>>)), <<>>, TitleData, TRUE, TRUE) :
          v \in {3, 4}, c \in SeqsUpTo(ControlPool, MaxControls),
          f \in SeqsUpTo({StrLogo, StrEacute}, MaxFiles)}
  \cup {Document(Header(v, 10, c, <<>>, ExactScripts(Len(vs), <<>>)), vs, SharedData, TRUE, FALSE) :
          v \in {3, 4}, c \in SeqsUpTo(ControlPool, MaxControls), vs \in {<<>>, <<V320>>}}
  \cup {Document(Header(4, 10, <<>>, <<>>, s), vs, TitleData, FALSE, FALSE) :
          vs \in SeqsUpTo(VariantPool, MaxVariants),
          s \in {NotAnArray, <<>>, <<<<>>>>, <<StrScript, StrA, StrB, StrN>>}}
  \cup {Document(Header(4, 10, <<>>, <<>>, ExactScripts(Len(vs), s)), vs, TitleData, FALSE, FALSE) :
          vs \in SeqsUpTo(VariantPool, MaxVariants), s \in {<<>>, StrScript, StrEacute}}

(* ----------------------- layout views and designer --------------------- *)
(* A view is reduced to its name and its variant0 rectangle; the name n     *)
(* stands for "Button<n>" and 0 for "Main", the root of Data. Every view is *)
(* a child of Main (parent: "Main" in _createView).                         *)

\* String(n) for n >= 0
RECURSIVE DigitsOf(_)
DigitsOf(n) == IF n < 10 THEN <<48 + n>> ELSE DigitsOf(n \div 10) \o <<48 + (n % 10)>>

\* The property name String(index) of _inject, and the name "Button<n>"
IndexKey(i) == DigitsOf(i)
NameKey(n) == StrButton \o DigitsOf(n)

Main == 0
NoSelection == 0

\* options.margin, options.innerMargin, options.defaultWidth and
\* options.defaultHeight when absent
Margin == 10
InnerMargin == 5
DefaultWidth == 100
DefaultHeight == 60

\* _createView: variant0 of a new view
View(name, left, top, width, height) ==
  [name |-> name, left |-> left, top |-> top, width |-> width, height |-> height]

\* Object.values(kids)
ObjectValues(kids) == [i \in 1..Len(kids) |-> kids[i].val]

\* _findView(this.layout.Data, name) for a name other than "Main": the
\* position in Object.values order of the first child with that name, or 0
findView(kids, name) ==
  IF \E i \in 1..Len(kids) : kids[i].val.name = name
    THEN CHOOSE i \in 1..Len(kids) :
           /\ kids[i].val.name = name
           /\ \A j \in 1..(i - 1) : kids[j].val.name # name
  ELSE 0

\* An _inject that takes the first unused index
injectUnused(kids, view) ==
  ObjSet(kids,
         IndexKey(CHOOSE i \in 0..Len(kids) :
                    /\ ~HasOwn(kids, IndexKey(i))
                    /\ \A j \in 0..(i - 1) : HasOwn(kids, IndexKey(j))),
         view)

\* _inject(parentName, view): root[':kids'][String(Object.keys(kids).length)] = view
inject(kids, view) == ObjSet(kids, IndexKey(Len(ObjectKeys(kids))), view)

\* isStrictlyInside(innerView, outerView) of addComponent
isStrictlyInside(inner, outer) ==
  /\ inner.left > outer.left
  /\ inner.top > outer.top
  /\ inner.left + inner.width < outer.left + outer.width
  /\ inner.top + inner.height < outer.top + outer.height

\* getDirectChildren(containerView) of addComponent
getDirectChildren(allViews, container) ==
  LET inside == SelectSeq(allViews, LAMBDA v :
                  v.name # container.name /\ isStrictlyInside(v, container))
  IN SelectSeq(inside, LAMBDA v :
       ~\E k \in 1..Len(inside) :
          inside[k].name # v.name /\ isStrictlyInside(v, inside[k]))

\* The siblings of addComponent
siblingsOf(allViews, kids, parentName) ==
  IF parentName = Main
    THEN SelectSeq(allViews, LAMBDA v :
           ~\E k \in 1..Len(allViews) :
              allViews[k].name # v.name /\ isStrictlyInside(v, allViews[k]))
  ELSE IF findView(kids, parentName) # 0
    THEN getDirectChildren(allViews, kids[findView(kids, parentName)].val)
  ELSE <<>>

MaxOf(S) == IF S = {} THEN 0 ELSE CHOOSE x \in S : \A y \in S : y <= x
MinOf(a, b) == IF a < b THEN a ELSE b

\* The placement of addComponent: the new view with its left and top set
placeView(kids, name, parentName, width) ==
  LET allViews == ObjectValues(kids)
      p == findView(kids, parentName)
      siblings == siblingsOf(allViews, kids, parentName)
      m == IF parentName = Main THEN Margin ELSE InnerMargin
      last == siblings[Len(siblings)]
      view == View(name, 0, 0, DefaultWidth, DefaultHeight)
  IN IF Len(siblings) = 0
       THEN IF parentName # Main /\ p # 0
              THEN [view EXCEPT !.top = kids[p].val.top + m, !.left = kids[p].val.left + m]
            ELSE [view EXCEPT !.top = m, !.left = m]
     ELSE IF parentName = Main
       THEN IF last.left + last.width + m + view.width + m > width
              THEN [view EXCEPT !.left = m,
                      !.top = MaxOf({0} \cup {siblings[k].top + siblings[k].height :
                                               k \in 1..Len(siblings)}) + m]
            ELSE [view EXCEPT !.left = last.left + last.width + m, !.top = last.top]
     ELSE [view EXCEPT !.top = last.top + last.height + m, !.left = last.left]

\* The auto-expand step of addComponent on the parent view, `view` being the
\* view just injected
expandParent(parent, view, width, height) ==
  LET right == view.left + view.width + InnerMargin
      bottom == view.top + view.height + InnerMargin
      wider == IF right > parent.left + parent.width
                 THEN [parent EXCEPT !.width =
                         MinOf(right - parent.left, width - parent.left)]
               ELSE parent
  IN IF bottom > wider.top + wider.height
       THEN [wider EXCEPT !.height = MinOf(bottom - wider.top, height - wider.top)]
     ELSE wider

\* addComponent(def, name, parentName): place, _inject, auto-expand. The
\* parent object is expanded where it still is a child after the _inject.
addComponent(kids, name, parentName, width, height) ==
  LET p == findView(kids, parentName)
      view == placeView(kids, name, parentName, width)
      injected == inject(kids, view)
  IN IF parentName # Main /\ p # 0 /\ HasOwn(injected, kids[p].key)
          /\ Get(injected, kids[p].key) = kids[p].val
       THEN ObjSet(injected, kids[p].key, expandParent(kids[p].val, view, width, height))
     ELSE injected

\* addBelow / addRight / addAbove / addLeft(def, name, siblingName), the
\* sibling being at position s
addBeside(kids, name, s, dir) ==
  LET sibling == kids[s].val
      view == View(name, 0, 0, DefaultWidth, DefaultHeight)
  IN inject(kids,
       IF dir = "below"
         THEN [view EXCEPT !.left = sibling.left,
                           !.top = sibling.top + sibling.height + Margin]
       ELSE IF dir = "right"
         THEN [view EXCEPT !.top = sibling.top,
                           !.left = sibling.left + sibling.width + Margin]
       ELSE IF dir = "above"
         THEN [view EXCEPT !.left = sibling.left,
                           !.top = sibling.top - view.height - Margin]
       ELSE [view EXCEPT !.top = sibling.top,
                         !.left = sibling.left - view.width - Margin])

\* duplicate(sourceName, newName), the source being at position s
duplicate(kids, newName, s) ==
  inject(kids, [kids[s].val EXCEPT !.name = newName,
                                   !.left = kids[s].val.left + Margin,
                                   !.top = kids[s].val.top + Margin])

\* The children renumbered "0", "1", ... in the order given
Renumbered(views) == [i \in 1..Len(views) |-> [key |-> IndexKey(i - 1), val |-> views[i]]]

WithoutAt(s, i) == SubSeq(s, 1, i - 1) \o SubSeq(s, i + 1, Len(s))

\* Object.keys(kids).sort((a, b) => parseInt(a) - parseInt(b)) as sequences
\* of positions in kids: index keys are listed first and ascending, so they
\* stay; with a key that is no index the comparator yields NaN, it is not a
\* consistent comparator and the order is implementation-defined.
SortedKeys(kids) ==
  IF \A i \in 1..Len(kids) : IsArrayIndex(kids[i].key)
    THEN {[i \in 1..Len(kids) |-> i]}
  ELSE {o \in [1..Len(kids) -> 1..Len(kids)] :
          \A i, j \in 1..Len(kids) : i # j => o[i] # o[j]}

\* The first key of keys whose child has the name (foundIdx), as a position
\* in keys
FoundIdx(kids, keys, name) ==
  CHOOSE i \in 1..Len(keys) :
    /\ kids[keys[i]].val.name = name
    /\ \A j \in 1..(i - 1) : kids[keys[j]].val.name # name

\* bringToFront(name) with keys the sorted keys: every child but the found
\* one, then the found one
bringToFront(kids, name, keys) ==
  IF findView(kids, name) = 0 THEN kids
  ELSE Renumbered(WithoutAt([i \in 1..Len(keys) |-> kids[keys[i]].val],
                            FoundIdx(kids, keys, name))
                  \o <<kids[keys[FoundIdx(kids, keys, name)]].val>>)

\* sendToBack(name) with keys the sorted keys: the found child first, then
\* every other child
sendToBack(kids, name, keys) ==
  IF findView(kids, name) = 0 THEN kids
  ELSE Renumbered(<<kids[keys[FoundIdx(kids, keys, name)]].val>>
                  \o WithoutAt([i \in 1..Len(keys) |-> kids[keys[i]].val],
                               FoundIdx(kids, keys, name)))

\* setRectangle(name, left, top, width, height) on the child at position p
setRectangle(kids, p, left, top, width, height) ==
  [kids EXCEPT ![p].val = [@ EXCEPT !.left = left, !.top = top,
                                    !.width = width, !.height = height]]

\* if (this._history.length > 50) this._history.shift();
HistoryLimit == 50

\* new SithasoBJLDesigner() on an engine whose layout has the children kids.
\* Besides the fields of the program: op and prev are the last two
\* operations, before the children before the last one, saved the children
\* the last confirmed clear() removed, steps the number of operations.
NewDesigner(kids) ==
  [kids |-> kids, selectedId |-> NoSelection, clipboard |-> <<>>,
   history |-> <<>>, redoStack |-> <<>>, op |-> "new", prev |-> "new",
   before |-> <<>>, saved |-> <<>>, steps |-> 0]

NoDesigner == NewDesigner(<<>>)

\* A saveState() that never drops the oldest snapshot
saveStateNoLimit(d) ==
  IF Len(d.history) = 0 \/ d.history[Len(d.history)] # d.kids
    THEN [d EXCEPT !.history = Append(d.history, d.kids), !.redoStack = <<>>]
  ELSE d

\* saveState(): the snapshot is JSON.stringify(Data), here the children
saveState(d) ==
  IF Len(d.history) = 0 \/ d.history[Len(d.history)] # d.kids
    THEN [d EXCEPT !.history = IF Len(d.history) + 1 > HistoryLimit
                                 THEN Tail(Append(d.history, d.kids))
                               ELSE Append(d.history, d.kids),
                   !.redoStack = <<>>]
  ELSE d

\* undo()
undo(d) ==
  IF Len(d.history) = 0 THEN d
  ELSE [d EXCEPT !.redoStack = Append(d.redoStack, d.kids),
                 !.kids = d.history[Len(d.history)],
                 !.history = SubSeq(d.history, 1, Len(d.history) - 1)]

\* redo()
redo(d) ==
  IF Len(d.redoStack) = 0 THEN d
  ELSE [d EXCEPT !.history = Append(d.history, d.kids),
                 !.kids = d.redoStack[Len(d.redoStack)],
                 !.redoStack = SubSeq(d.redoStack, 1, Len(d.redoStack) - 1)]

\* clear() once confirmed
clear(d) ==
  [saveState(d) EXCEPT !.kids = <<>>, !.selectedId = NoSelection,
                       !.history = <<>>, !.redoStack = <<>>, !.saved = d.kids]

\* The view of the selection with f applied to it, when the selection is a
\* child (if (view) { ... })
OnSelected(d, f(_)) ==
  IF findView(d.kids, d.selectedId) = 0 THEN d
  ELSE [d EXCEPT !.kids[findView(d.kids, d.selectedId)].val =
                   f(d.kids[findView(d.kids, d.selectedId)].val)]

\* nudge(dx, dy) after the saveState() of its handlers
nudge(d, dx, dy) ==
  OnSelected(saveState(d), LAMBDA v : [v EXCEPT !.left = v.left + dx, !.top = v.top + dy])

\* this._snapGrid
SnapGrid == 10

\* Math.round(x / this._snapGrid) * this._snapGrid
Snap(x) == ((2 * x + SnapGrid) \div (2 * SnapGrid)) * SnapGrid

\* startDragging(e, id) with a move past the threshold: saveState() on the
\* first move, drag(view, el, initialLeft, initialTop, dx, dy), and
\* selectElement(id) on mouseup
drag(d, id, dx, dy) ==
  [saveState(d) EXCEPT
     !.kids[findView(d.kids, id)].val =
        [@ EXCEPT !.left = Snap(@ + dx), !.top = Snap(@ + dy)],
     !.selectedId = id]

\* startResizing, then resize("e", ...): no saveState()
resize(d, dx) ==
  OnSelected(d, LAMBDA v :
    [v EXCEPT !.width = IF Snap(v.width + dx) > SnapGrid THEN Snap(v.width + dx)
                        ELSE SnapGrid])

\* copy()
copy(d) ==
  IF d.selectedId = NoSelection \/ findView(d.kids, d.selectedId) = 0 THEN d
  ELSE [d EXCEPT !.clipboard = <<d.kids[findView(d.kids, d.selectedId)].val>>]

\* _getNextId(baseName): one more than the largest number among the names
getNextId(kids) == MaxOf({kids[i].val.name : i \in 1..Len(kids)}) + 1

\* The distance paste() moves the pasted view by
PasteOffset == 20

\* paste(): the clone goes under the key of its new name
paste(d) ==
  IF d.clipboard = <<>> THEN d
  ELSE LET s == saveState(d)
           newId == getNextId(s.kids)
           newItem == [d.clipboard[1] EXCEPT !.name = newId,
                                             !.left = @ + PasteOffset,
                                             !.top = @ + PasteOffset]
       IN [s EXCEPT !.kids = ObjSet(s.kids, NameKey(newId), newItem),
                    !.selectedId = newId]

\* _recursiveDelete(kids, id): delete kids[key] of the first child named id
recursiveDelete(kids, id) ==
  IF findView(kids, id) = 0 THEN kids ELSE WithoutAt(kids, findView(kids, id))

\* deleteSelected()
deleteSelected(d) ==
  IF d.selectedId = NoSelection THEN saveState(d)
  ELSE [saveState(d) EXCEPT !.kids = recursiveDelete(d.kids, d.selectedId),
                            !.selectedId = NoSelection]

(* ---------------------------- state machine ---------------------------- *)

NoEncoding == [b |-> <<>>, e |-> ""]
NoDecoding == [err |-> "", offset |-> 0, design |-> EmptyDesign]

\* Length of the header part of an encoding of json
HeaderLength(json) == Len(writeLayoutHeader(json.LayoutHeader, json.Variants).b)

\* The encoding b of json with its script block (int32 length + bytes)
\* replaced by the block `raw`
WithScriptBlock(b, json, raw) ==
  Take(b, HeaderLength(json)
          - Len(ScriptBytes(json.LayoutHeader, json.Variants)) - 4)
  \o writeInt(Len(raw)) \o raw \o Drop(b, HeaderLength(json))

\* Script blocks of files this codec did not write: not gzip at all, or a
\* gzip member whose content ends early
BadScriptBlocks ==
  {<<>>, <<1, 2, 3>>, Gzip(<<>>), Gzip(<<128>>), Gzip(<<0, 1, 0>>),
   Gzip(<<0, 1, 0, 0, 0, 0, 0, 128, 63>>)}

\* The files offered to the decoder: the encoder's output, that output with
\* a bad script block, and its first four bytes alone
InputFiles(b, json) ==
  {b, Take(b, 4)} \cup {WithScriptBlock(b, json, raw) : raw \in BadScriptBlocks}

\* options.variantWidth / options.variantHeight when absent
DefaultVariantSize == 600

\* syncVariantBoundsFromLayout(layout): the first variant's Width (Height)
\* replaces the current bound when it is a positive number
syncVariantBound(variants, field, cur) ==
  IF Len(variants) > 0 /\ variants[1][field] > 0 THEN variants[1][field] ELSE cur

\* new SithasoLayoutEngine(bjlJson)
Init ==
  /\ doc \in DocSet
  /\ enc = NoEncoding
  /\ file = <<>>
  /\ dec = NoDecoding
  /\ pc = "loaded"
  /\ variantWidth = syncVariantBound(doc.Variants, "Width", DefaultVariantSize)
  /\ variantHeight = syncVariantBound(doc.Variants, "Height", DefaultVariantSize)
  /\ calls = <<>> /\ readerOffset = <<>> /\ writerBuffer = <<>>
  /\ reader = NoReader /\ writer = NoWriter /\ designer = NoDesigner

\* download(): converter.convertJsonToBjlToBytes(this.layout)
Encode ==
  /\ pc = "loaded"
  /\ enc' = convertJsonToBjlToBytes(doc)
  /\ pc' = "encoded"
  /\ UNCHANGED <<doc, file, dec, variantWidth, variantHeight>>
  /\ UNCHANGED <<converter, apart>>

\* converter.convertBjlToJsonFromBytes(bytes) on a file
Decode ==
  /\ pc = "encoded"
  /\ enc.e = ""
  /\ \E f \in InputFiles(enc.b, doc) :
       /\ file' = f
       /\ dec' = convertBjlToJsonFromBytes(f)
  /\ pc' = "decoded"
  /\ UNCHANGED <<doc, enc, variantWidth, variantHeight>>
  /\ UNCHANGED <<converter, apart>>

\* loadFile(): this.layout = await converter.convertBjlToJsonFromFile(file);
\* this.syncVariantBoundsFromLayout()
Load ==
  /\ pc = "decoded"
  /\ dec.err = ""
  /\ doc' = dec.design
  /\ enc' = NoEncoding
  /\ file' = <<>>
  /\ dec' = NoDecoding
  /\ pc' = "loaded"
  /\ variantWidth' =
       syncVariantBound(dec.design.Variants, "Width", variantWidth)
  /\ variantHeight' =
       syncVariantBound(dec.design.Variants, "Height", variantHeight)
  /\ UNCHANGED <<converter, apart>>

Next == Encode \/ Decode \/ Load

Spec == Init /\ [][Next]_vars

(* --------------------------- converter calls --------------------------- *)
(* Several calls of convertJsonToBjlToBytes / convertBjlToJsonFromBytes in  *)
(* progress at once. A call advances statement by statement of the method  *)
(* body; the steps of different calls interleave in any order, which        *)
(* includes every order a JavaScript scheduler can produce.                 *)

NumCalls == 2

\* Documents handed to the calls: the scenario, one with control headers,
\* a variant and shared strings, and one whose encoding throws
CallDocs ==
  {ScenarioDoc,
   Document(Header(3, 10, <<Control(StrButton1, StrB4XView, StrButton)>>,
                   <<StrLogo>>, ExactScripts(1, StrScript)),
            <<V320>>, SharedData, FALSE, TRUE),
   Document(BaseHeader, <<>>,
            ObjLit(<< <<StrA, JsInt(1)>>, <<StrConstructor, JsInt(2)>> >>),
            FALSE, FALSE)}

\* Files handed to the calls: encodings, and an encoding cut short
CallFiles ==
  {convertJsonToBjlToBytes(d).b : d \in {c \in CallDocs : convertJsonToBjlToBytes(c).e = ""}}
  \cup {Take(convertJsonToBjlToBytes(ScenarioDoc).b, 50)}

NoResult == [bytes |-> <<>>, err |-> "", offset |-> 0, design |-> EmptyDesign]

NewCall(kind, json, bytes) ==
  [kind |-> kind, json |-> json, bytes |-> bytes, pc |-> "start",
   header |-> EmptyHeader, overlapped |-> FALSE, result |-> NoResult]

CallSet ==
  {NewCall("encode", d, <<>>) : d \in CallDocs}
  \cup {NewCall("decode", EmptyDesign, f) : f \in CallFiles}

\* The reader (writer) that call c works with: the one it created itself,
\* const reader = new BinaryReader(bytes) / const writer = new BinaryWriter()
SlotShared(c) == 1
Slot(c) == c

\* Another call is between its first and its last statement
InProgress(c) == \E o \in 1..NumCalls : o # c /\ calls[o].pc \notin {"start", "done"}

Advance(c, to, header, result) ==
  calls' = [calls EXCEPT ![c] =
              [@ EXCEPT !.pc = to, !.header = header, !.result = result,
                        !.overlapped = @ \/ InProgress(c)]]

InitCalls ==
  /\ doc = ScenarioDoc /\ enc = NoEncoding /\ file = <<>> /\ dec = NoDecoding
  /\ pc = "calls"
  /\ variantWidth = DefaultVariantSize /\ variantHeight = DefaultVariantSize
  /\ calls \in [1..NumCalls -> CallSet]
  /\ readerOffset = [c \in 1..NumCalls |-> 0]
  /\ writerBuffer = [c \in 1..NumCalls |-> <<>>]
  /\ reader = NoReader /\ writer = NoWriter /\ designer = NoDesigner

\* const reader = new BinaryReader(bytes)
NewReader(c) ==
  /\ calls[c].pc = "start" /\ calls[c].kind = "decode"
  /\ readerOffset' = [readerOffset EXCEPT ![Slot(c)] = 0]
  /\ Advance(c, "header", calls[c].header, calls[c].result)
  /\ UNCHANGED writerBuffer

\* const header = this._readLayoutHeader(reader);
\* if (header.Version < 3) throw new Error("Unsupported BJL version");
ReadHeader(c) ==
  /\ calls[c].pc = "header" /\ calls[c].kind = "decode"
  /\ LET h == readLayoutHeader(calls[c].bytes)
     IN /\ readerOffset' = [readerOffset EXCEPT ![Slot(c)] = h.o]
        /\ IF h.ok /\ ~IsUnsupported(h)
             THEN Advance(c, "body", h.v, calls[c].result)
           ELSE Advance(c, "done", calls[c].header,
                        [bytes |-> <<>>, offset |-> h.o, design |-> EmptyDesign,
                         err |-> Outcome(Fail(h.o), IsUnsupported(h)).err])
  /\ UNCHANGED writerBuffer

\* The statements of convertBjlToJsonFromBytes after the version gate, the
\* reader standing where the header left it
ReadBody(c) ==
  /\ calls[c].pc = "body" /\ calls[c].kind = "decode"
  /\ LET res == readDesign(calls[c].bytes,
                           [v |-> calls[c].header, o |-> readerOffset[Slot(c)],
                            ok |-> TRUE])
         out == Outcome(res, FALSE)
     IN /\ readerOffset' = [readerOffset EXCEPT ![Slot(c)] = res.o]
        /\ Advance(c, "done", calls[c].header,
                   [bytes |-> <<>>, offset |-> out.offset, design |-> out.design,
                    err |-> out.err])
  /\ UNCHANGED writerBuffer

\* const writer = new BinaryWriter()
NewWriter(c) ==
  /\ calls[c].pc = "start" /\ calls[c].kind = "encode"
  /\ writerBuffer' = [writerBuffer EXCEPT ![Slot(c)] = <<>>]
  /\ Advance(c, "header", calls[c].header, calls[c].result)
  /\ UNCHANGED readerOffset

\* A writing statement of convertJsonToBjlToBytes: what it writes goes to the
\* call's writer, and an exception ends the call
Write(c, from, to, written) ==
  /\ calls[c].pc = from /\ calls[c].kind = "encode"
  /\ IF written.e = ""
       THEN /\ writerBuffer' =
                 [writerBuffer EXCEPT ![Slot(c)] = @ \o written.b]
            /\ Advance(c, to, calls[c].header,
                       IF to = "done"
                         THEN [NoResult EXCEPT
                                 !.bytes = writerBuffer[Slot(c)] \o written.b]
                       ELSE calls[c].result)
     ELSE /\ UNCHANGED writerBuffer
          /\ Advance(c, "done", calls[c].header, [NoResult EXCEPT !.err = written.e])
  /\ UNCHANGED readerOffset

\* this._writeLayoutHeader(json.LayoutHeader || {}, writer, variants)
WriteHeader(c) ==
  Write(c, "header", "body",
        writeLayoutHeader(calls[c].json.LayoutHeader, calls[c].json.Variants))

\* this._writeAllLayout(writer, variants, json.Data || {}, ...)
WriteBody(c) ==
  Write(c, "body", "flags",
        writeAllLayout(calls[c].json.Variants, calls[c].json.Data))

\* writer.writeByte(json.FontAwesome ? 1 : 0);
\* writer.writeByte(json.MaterialIcons ? 1 : 0); return writer.getBuffer()
WriteFlags(c) ==
  Write(c, "flags", "done",
        Ok(writeByte(IF calls[c].json.FontAwesome THEN 1 ELSE 0)
           \o writeByte(IF calls[c].json.MaterialIcons THEN 1 ELSE 0)))

NextCalls ==
  /\ \E c \in 1..NumCalls :
       \/ NewReader(c)
       \/ ReadHeader(c)
       \/ ReadBody(c)
       \/ NewWriter(c)
       \/ WriteHeader(c)
       \/ WriteBody(c)
       \/ WriteFlags(c)
  /\ UNCHANGED <<engine, apart>>

SpecCalls == InitCalls /\ [][NextCalls]_vars

(* ------------------------------- reader -------------------------------- *)
(* A BinaryReader used on its own: any sequence of its five operations on  *)
(* a small buffer, operations after a thrown RangeError included.          *)

MaxBuffer == 4
MaxOverrun == 3

SliceLengths == {-2, 0, 1, 3}

ReaderBuffers == SeqsUpTo({0, 200}, MaxBuffer)

InitReader ==
  /\ doc = ScenarioDoc /\ enc = NoEncoding /\ file = <<>> /\ dec = NoDecoding
  /\ pc = "reader"
  /\ variantWidth = DefaultVariantSize /\ variantHeight = DefaultVariantSize
  /\ calls = <<>> /\ readerOffset = <<>> /\ writerBuffer = <<>>
  /\ reader \in {NewReaderOn(b) : b \in ReaderBuffers}
  /\ writer = NoWriter /\ designer = NoDesigner

\* The reader after an operation that asked for `size` bytes and ended as r
Applied(op, size, r) ==
  [buffer |-> reader.buffer, offset |-> r.o, op |-> op, before |-> reader.offset,
   size |-> size, value |-> IF op = "readBytes" THEN r.v ELSE <<r.v>>,
   threw |-> ~r.ok]

\* The reader is still close to its buffer (keeps the state space finite)
Near ==
  /\ reader.offset <= Len(reader.buffer) + MaxOverrun
  /\ reader.offset >= 0 - MaxOverrun

ReadByte ==
  Near /\ reader' = Applied("readByte", 1, readByte(reader.buffer, reader.offset))

ReadSignedByte ==
  Near /\ reader' = Applied("readSignedByte", 1,
                            readSignedByte(reader.buffer, reader.offset))

ReadInt ==
  Near /\ reader' = Applied("readInt", 4, readInt(reader.buffer, reader.offset))

ReadFloat ==
  Near /\ reader' = Applied("readFloat", 4, readFloat(reader.buffer, reader.offset))

ReadBytes ==
  /\ Near
  /\ \E len \in SliceLengths :
       reader' = Applied("readBytes", len, readBytes(reader.buffer, reader.offset, len))

NextReader ==
  /\ ReadByte \/ ReadSignedByte \/ ReadInt \/ ReadFloat \/ ReadBytes
  /\ UNCHANGED <<engine, converter, writer, designer>>

SpecReader == InitReader /\ [][NextReader]_vars

(* ------------------------- BinaryWriter steps -------------------------- *)

\* The writer stops taking writes at this offset
MaxWritten == 6

\* Initial capacities (the code's default is 1024 * 1024)
WriterSizes == {0, 1, 3}

WriterBytePool == {200}
WriterIntPool == {-2}
WriterChunks == {<<>>, <<9, 8, 7>>}

InitWriter ==
  /\ doc = ScenarioDoc /\ enc = NoEncoding /\ file = <<>> /\ dec = NoDecoding
  /\ pc = "writer"
  /\ variantWidth = DefaultVariantSize /\ variantHeight = DefaultVariantSize
  /\ calls = <<>> /\ readerOffset = <<>> /\ writerBuffer = <<>>
  /\ reader = NoReader /\ designer = NoDesigner
  /\ writer \in {NewWriterOf(n) : n \in WriterSizes}

\* ensure(n), store the bytes at the offset, advance the offset by n
Written(op, bytes) ==
  [buffer |-> setBytes(ensure(writer.buffer, writer.offset, Len(bytes)),
                       writer.offset, bytes),
   offset |-> writer.offset + Len(bytes), op |-> op, before |-> writer.offset,
   size |-> Len(bytes), log |-> writer.log \o bytes, out |-> <<>>]

Room == writer.offset < MaxWritten

WriteByte == Room /\ \E v \in WriterBytePool : writer' = Written("writeByte", writeByte(v))

WriteInt == Room /\ \E v \in WriterIntPool : writer' = Written("writeInt", writeInt(v))

WriteFloat == Room /\ writer' = Written("writeFloat", writeFloat(FloatOne))

WriteBytes ==
  Room /\ \E bytes \in WriterChunks : writer' = Written("writeBytes", writeBytes(bytes))

\* updateInt(offset, v) on a field written before: setInt32 inside the
\* written part
UpdateInt ==
  \E o \in 0..(writer.offset - 4) :
    writer' = [writer EXCEPT !.buffer = updateInt(writer.buffer, o, 1),
                             !.log = updateInt(writer.log, o, 1),
                             !.op = "updateInt", !.before = o, !.size = 4,
                             !.out = <<>>]

GetBuffer ==
  /\ writer.op # "getBuffer"
  /\ writer' = [writer EXCEPT !.op = "getBuffer", !.size = 0,
                               !.before = writer.offset,
                               !.out = getBuffer(writer.buffer, writer.offset)]

NextWriter ==
  /\ WriteByte \/ WriteInt \/ WriteFloat \/ WriteBytes \/ UpdateInt \/ GetBuffer
  /\ UNCHANGED <<engine, converter, reader, designer>>

SpecWriter == InitWriter /\ [][NextWriter]_vars

(* ------------------------- designer operations ------------------------ *)

MaxSteps == 5

NudgeSteps == {<<1, 0>>}
DragMoves == {<<6, 0>>}
ResizeMoves == {14}
Directions == {"right", "above"}

InitDesigner ==
  /\ doc = ScenarioDoc /\ enc = NoEncoding /\ file = <<>> /\ dec = NoDecoding
  /\ pc = "designer"
  /\ variantWidth = DefaultVariantSize /\ variantHeight = DefaultVariantSize
  /\ calls = <<>> /\ readerOffset = <<>> /\ writerBuffer = <<>>
  /\ reader = NoReader /\ writer = NoWriter
  /\ designer = NewDesigner(<<>>)

\* The designer after an operation that left it as d
Did(op, d) ==
  /\ designer.steps < MaxSteps
  /\ designer' = [d EXCEPT !.op = op, !.prev = designer.op,
                           !.before = designer.kids, !.steps = designer.steps + 1]
  /\ UNCHANGED <<engine, converter, reader, writer>>

\* The names of the children
Names(kids) == {kids[i].val.name : i \in 1..Len(kids)}

\* engine.addComponent(def, name) under a name not in use
AddComponent ==
  pc = "designer" /\ Did("add", [designer EXCEPT !.kids =
        addComponent(designer.kids, getNextId(designer.kids), Main,
                     variantWidth, variantHeight)])

\* engine.addInside(def, name, parentName) into an existing view
AddInside ==
  \E parent \in Names(designer.kids) :
    Did("add", [designer EXCEPT !.kids =
          addComponent(designer.kids, getNextId(designer.kids), parent,
                       variantWidth, variantHeight)])

\* engine.addBelow / addRight / addAbove / addLeft(def, name, siblingName)
AddBeside ==
  \E sibling \in Names(designer.kids), dir \in Directions :
    Did("add", [designer EXCEPT !.kids =
          addBeside(designer.kids, getNextId(designer.kids),
                    findView(designer.kids, sibling), dir)])

\* engine.duplicate(sourceName, newName)
Duplicate ==
  \E source \in Names(designer.kids) :
    Did("add", [designer EXCEPT !.kids =
          duplicate(designer.kids, getNextId(designer.kids),
                    findView(designer.kids, source))])

\* selectElement(id): a click on an item or on the empty workspace
SelectElement ==
  \E id \in Names(designer.kids) \cup {NoSelection} :
    /\ id # designer.selectedId
    /\ Did("select", [designer EXCEPT !.selectedId = id])

\* Ctrl+C
Copy == designer.selectedId # NoSelection /\ Did("copy", copy(designer))

\* paste(): Ctrl+V with a selection, or the menu
Paste == designer.clipboard # <<>> /\ Did("paste", paste(designer))

\* deleteSelected(): the Delete key with a selection
DeleteSelected ==
  designer.selectedId # NoSelection /\ Did("delete", deleteSelected(designer))

\* Designer bringToFront(): saveState(), then the engine's bringToFront,
\* whose exception is caught
BringToFront ==
  /\ designer.selectedId # NoSelection
  /\ \E keys \in SortedKeys(designer.kids) :
       Did("bringToFront", [saveState(designer) EXCEPT !.kids =
             bringToFront(designer.kids, designer.selectedId, keys)])

\* Designer sendToBack()
SendToBack ==
  /\ designer.selectedId # NoSelection
  /\ \E keys \in SortedKeys(designer.kids) :
       Did("sendToBack", [saveState(designer) EXCEPT !.kids =
             sendToBack(designer.kids, designer.selectedId, keys)])

\* An arrow key with a selection, or a nudge button: saveState(), nudge(dx, dy)
Nudge == \E s \in NudgeSteps : Did("nudge", nudge(designer, s[1], s[2]))

\* A drag of an item past the threshold
Drag ==
  \E id \in Names(designer.kids), m \in DragMoves :
    Did("drag", drag(designer, id, m[1], m[2]))

\* A drag of the east resize handle of the selected item
Resize ==
  /\ findView(designer.kids, designer.selectedId) # 0
  /\ \E dx \in ResizeMoves : Did("resize", resize(designer, dx))

\* The undo button (or Ctrl+Z)
Undo == pc = "designer" /\ Did("undo", undo(designer))

\* The redo button (or Ctrl+Y)
Redo == pc = "designer" /\ Did("redo", redo(designer))

\* clear(), confirmed
Clear == pc = "designer" /\ Did("clear", clear(designer))

NextDesigner ==
  \/ AddComponent
  \/ AddInside
  \/ AddBeside
  \/ Duplicate
  \/ SelectElement
  \/ Copy
  \/ Paste
  \/ DeleteSelected
  \/ BringToFront
  \/ SendToBack
  \/ Nudge
  \/ Drag
  \/ Resize
  \/ Undo
  \/ Redo
  \/ Clear

SpecDesigner == InitDesigner /\ [][NextDesigner]_vars

(* --------------------------- engine add calls -------------------------- *)

RectangleLefts == {0, 550}
RectangleTops == {0, 570}
RectangleWidths == {100, 700}
RectangleHeights == {60}

InitAdd ==
  /\ doc = ScenarioDoc /\ enc = NoEncoding /\ file = <<>> /\ dec = NoDecoding
  /\ pc = "engine"
  /\ variantWidth = DefaultVariantSize /\ variantHeight = DefaultVariantSize
  /\ calls = <<>> /\ readerOffset = <<>> /\ writerBuffer = <<>>
  /\ reader = NoReader /\ writer = NoWriter
  /\ designer = NewDesigner(<<>>)

\* engine.addComponent(def, name)
EngineAddComponent ==
  /\ pc = "engine"
  /\ Did("add", [designer EXCEPT !.kids =
           addComponent(designer.kids, getNextId(designer.kids), Main,
                        variantWidth, variantHeight)])

\* engine.setRectangle(name, left, top, width, height)
EngineSetRectangle ==
  /\ pc = "engine"
  /\ \E name \in Names(designer.kids), left \in RectangleLefts, top \in RectangleTops,
        width \in RectangleWidths, height \in RectangleHeights :
       Did("setRectangle", [designer EXCEPT !.kids =
             setRectangle(designer.kids, findView(designer.kids, name),
                          left, top, width, height)])

\* engine.addInside(def, name, parentName)
EngineAddInside ==
  /\ pc = "engine"
  /\ \E parent \in Names(designer.kids) :
       Did("addInside", [designer EXCEPT !.kids =
             addComponent(designer.kids, getNextId(designer.kids), parent,
                          variantWidth, variantHeight)])

NextAdd ==
  \/ EngineAddComponent
  \/ EngineSetRectangle
  \/ EngineAddInside

SpecAdd == InitAdd /\ [][NextAdd]_vars

(* ------------------------------ history -------------------------------- *)
(* saveState, undo, redo and clear without a bound on their number. The     *)
(* layout holds one selected view, which the arrow keys move between two    *)
(* positions, so that snapshots differ and the state space stays finite.    *)

HistoryLefts == {Margin, Margin + 1}

InitHistory ==
  /\ doc = ScenarioDoc /\ enc = NoEncoding /\ file = <<>> /\ dec = NoDecoding
  /\ pc = "history"
  /\ variantWidth = DefaultVariantSize /\ variantHeight = DefaultVariantSize
  /\ calls = <<>> /\ readerOffset = <<>> /\ writerBuffer = <<>>
  /\ reader = NoReader /\ writer = NoWriter
  /\ designer = [NewDesigner(addComponent(<<>>, 1, Main, DefaultVariantSize,
                                          DefaultVariantSize))
                   EXCEPT !.selectedId = 1]

\* The designer after an operation that left it as d
Becomes(op, d) ==
  /\ designer' = [d EXCEPT !.op = op]
  /\ UNCHANGED <<engine, converter, reader, writer>>

\* saveState()
HistorySaveState == pc = "history" /\ Becomes("saveState", saveState(designer))

\* ArrowLeft / ArrowRight: saveState(), nudge(-1, 0) or nudge(1, 0)
HistoryNudge ==
  /\ pc = "history"
  /\ \E dx \in {-1, 1} :
       /\ \A i \in 1..Len(nudge(designer, dx, 0).kids) :
            nudge(designer, dx, 0).kids[i].val.left \in HistoryLefts
       /\ Becomes("nudge", nudge(designer, dx, 0))

HistoryUndo == pc = "history" /\ Becomes("undo", undo(designer))

HistoryRedo == pc = "history" /\ Becomes("redo", redo(designer))

HistoryClear == pc = "history" /\ Becomes("clear", clear(designer))

NextHistory ==
  \/ HistorySaveState
  \/ HistoryNudge
  \/ HistoryUndo
  \/ HistoryRedo
  \/ HistoryClear

SpecHistory == InitHistory /\ [][NextHistory]_vars

(* ------------------------------- claims -------------------------------- *)

\* A value in the form the decoder surfaces it (the closed value set)
RECURSIVE ExternalMap(_)
ExternalValue(val) ==
  \/ val.k \in {"integer", "string", "boolean"}
  \/ val.k = "tagged" /\ val.t \in {CSTRING, CFLOAT, CNULL}
  \/ val.k = "tagged" /\ val.t = CCOLOR /\ Len(val.v) = 10
       /\ \A i \in 3..10 : IsDigit(val.v[i]) \/ (val.v[i] >= 65 /\ val.v[i] <= 70)
  \/ val.k = "tagged" /\ val.t = RECT32 /\ Len(val.v) = 4
       /\ \A i \in 1..4 : val.v[i] >= -32768 /\ val.v[i] <= 32767
  \/ val.k = "object" /\ ExternalMap(val.m)
ExternalMap(m) == \A i \in 1..Len(m) : ExternalValue(m[i].val)

\* The decoder was given exactly the bytes the encoder returned for doc
DecodedOwn == pc = "decoded" /\ file = enc.b

\* A document of the data model: one script per variant after the global
\* one, and no grid size of its own below version 4
IsDocument(d) ==
  /\ IsArray(d.LayoutHeader.DesignerScript)
  /\ Len(d.LayoutHeader.DesignerScript) = 1 + Len(d.Variants)
  /\ d.LayoutHeader.Version < 4 => d.LayoutHeader.GridSize = EmptyHeader.GridSize
  /\ ExternalMap(d.Data)

\* C1: for every document with version >= 3, the encoder returns bytes and
\* decoding them returns a document equal to it (header, variants, data,
\* both flags).
RoundTrip ==
  (pc # "loaded" /\ doc.LayoutHeader.Version >= 3 /\ IsDocument(doc))
    => /\ enc.e = ""
       /\ DecodedOwn => (dec.err = "" /\ dec.design = doc)

\* C3: a buffer whose first int32 is below 3 fails with the unsupported
\* version error, the reader having consumed exactly the 4 version bytes.
FirstInt(buf) == ToInt32(buf[1], buf[2], buf[3], buf[4])

LegacyVersionRejected ==
  (pc = "decoded" /\ Len(file) >= 4 /\ FirstInt(file) < 3)
    => (dec.err = UnsupportedVersion /\ dec.offset = 4)

LegacyVersionWitness ==
  /\ pc = "decoded" /\ Len(file) > 4 /\ FirstInt(file) = 2
  /\ dec.err = UnsupportedVersion

\* C4 as stated: the scenario document decodes to an equal document, its
\* designerScript [""] included.
ScenarioEqual == (DecodedOwn /\ doc = ScenarioDoc) => (dec.err = "" /\ dec.design = doc)

\* C4 amended: the scenario document decodes to a document equal to it but
\* for DesignerScript, which comes back with one entry per variant added
\* (["", ""]); one variant of width 600, map {"title": "Hello"}, flags
\* true/false.
ScenarioDecoded ==
  (DecodedOwn /\ doc = ScenarioDoc)
    => /\ dec.err = ""
       /\ dec.design =
            [doc EXCEPT !.LayoutHeader.DesignerScript = <<<<>>, <<>>>>]
       /\ Len(dec.design.Variants) = 1 /\ dec.design.Variants[1].Width = 600
       /\ dec.design.Data = ObjLit(<< <<StrTitle, Tagged(CSTRING, StrHello)>> >>)
       /\ dec.design.FontAwesome /\ ~dec.design.MaterialIcons

ScenarioWitness == DecodedOwn /\ doc = ScenarioDoc /\ dec.err = ""

\* The n payload bytes of the last root entry, when that payload has a
\* fixed size: they are followed by the root terminator (5 bytes), the
\* footer (4) and the flags (2)
TailPayload(b, n) == SubSeq(b, Len(b) - 10 - n, Len(b) - 11)

UpperHexDigit(d) == IF d < 10 THEN 48 + d ELSE 55 + d
UpperHex(bytes) ==
  Flatten([i \in 1..Len(bytes) |->
             <<UpperHexDigit(bytes[i] \div 16), UpperHexDigit(bytes[i] % 16)>>])

LastIs(m, t) ==
  /\ Len(m) >= 1 /\ ExternalMap(m)
  /\ m[Len(m)].val.k = "tagged" /\ m[Len(m)].val.t = t

\* C5: a 4-byte color payload b is surfaced as "0x" and the 8 uppercase hex
\* digits of b in byte order, and encoding that string writes b again.
ColorRoundTrip ==
  (DecodedOwn /\ LastIs(doc.Data, CCOLOR))
    => LET b == TailPayload(file, 4)
           again == convertJsonToBjlToBytes(dec.design)
       IN /\ dec.err = ""
          /\ LastIs(dec.design.Data, CCOLOR)
          /\ dec.design.Data[Len(dec.design.Data)].val.v = <<48, 120>> \o UpperHex(b)
          /\ again.e = ""
          /\ TailPayload(again.b, 4) = b

ColorWitness ==
  /\ DecodedOwn /\ LastIs(doc.Data, CCOLOR)
  /\ TailPayload(file, 4) = <<255, 0, 128, 10>>

Int16Bytes(x) == <<(x + 65536) % 256, ((x + 65536) \div 256) % 256>>

\* C6: a Rect32 of four signed 16-bit integers is written as 8 bytes, the
\* four values in order as little-endian int16, and decodes to the same
\* array.
RectRoundTrip ==
  (DecodedOwn /\ LastIs(doc.Data, RECT32))
    => LET r == doc.Data[Len(doc.Data)].val.v
       IN /\ TailPayload(file, 8) = Flatten([i \in 1..4 |-> Int16Bytes(r[i])])
          /\ dec.err = ""
          /\ LastIs(dec.design.Data, RECT32)
          /\ dec.design.Data[Len(dec.design.Data)].val.v = r

RectWitness ==
  /\ DecodedOwn /\ LastIs(doc.Data, RECT32)
  /\ doc.Data[Len(doc.Data)].val.v = <<10, -5, 300, -32768>>
  /\ dec.err = ""

\* Where the root map starts in an encoding b of json: after the header,
\* the body string table, the variant count and the variants
RootMapStart(b, json) ==
  loadStringsCache(b, 8 + ToInt32(b[5], b[6], b[7], b[8])).o
  + 4 + 12 * Len(json.Variants)

Flags(json) ==
  <<IF json.FontAwesome THEN 1 ELSE 0, IF json.MaterialIcons THEN 1 ELSE 0>>

EmptyFirst(m) == Len(m) >= 1 /\ m[1].val = JsObject(<<>>) /\ m[1].key \notin ObjectPrototypeNames

\* C7: an empty map is encoded as one empty-string key write (00 00 00 00)
\* followed by the EndOfMap byte 4 and nothing else: for the root map these
\* 5 bytes are all that lies between the variants and the footer, for a
\* nested map all that lies between its tag byte 3 and what follows it.
EmptyMapEncoding ==
  (pc # "loaded" /\ enc.e = "")
    => /\ doc.Data = <<>>
            => Drop(enc.b, RootMapStart(enc.b, doc))
                 = <<0, 0, 0, 0, 4>> \o <<0, 0, 0, 0>> \o Flags(doc)
       /\ EmptyFirst(doc.Data)
            => SubSeq(enc.b, RootMapStart(enc.b, doc) + 1, RootMapStart(enc.b, doc) + 10)
                 = <<0, 0, 0, 0, 3>> \o <<0, 0, 0, 0, 4>>
       /\ (EmptyFirst(doc.Data) /\ Len(doc.Data) = 1)
            => Drop(enc.b, RootMapStart(enc.b, doc) + 10)
                 = <<0, 0, 0, 0, 4>> \o <<0, 0, 0, 0>> \o Flags(doc)

EmptyMapWitness ==
  /\ pc = "encoded" /\ enc.e = "" /\ doc.Data = <<>>
  /\ doc.LayoutHeader.Version = 3

\* The tags the decoder gives a meaning to, as signed bytes
IsUnknownTag(t) ==
  (IF (t % 256) >= 128 THEN (t % 256) - 256 ELSE (t % 256))
    \notin {1, 2, 3, 4, 5, 6, 7, 9, 11, 12}

UnknownAt(m, i) ==
  /\ i \in 1..Len(m)
  /\ m[i].val.k = "tagged" /\ IsUnknownTag(m[i].val.t)
  /\ ExternalMap(SubSeq(m, 1, i - 1))

\* C8: a root map with a value tag outside {1,2,3,4,5,6,7,9,11,12} decodes
\* without an error to the entries that precede that tag; the key read with
\* the tag is not stored.
SilentTruncation ==
  \A i \in 1..Len(doc.Data) :
    (DecodedOwn /\ UnknownAt(doc.Data, i))
      => (dec.err = "" /\ dec.design.Data = SubSeq(doc.Data, 1, i - 1))

SilentTruncationWitness ==
  /\ DecodedOwn /\ UnknownAt(doc.Data, 2) /\ Len(doc.Data) = 3
  /\ dec.err = "" /\ Len(dec.design.Data) = 1

BadScriptFiles == {WithScriptBlock(enc.b, doc, raw) : raw \in BadScriptBlocks}

WithoutScripts(design) == [design EXCEPT !.LayoutHeader.DesignerScript = <<>>]

\* C9: when the script block does not decompress, or its content cannot be
\* parsed, DesignerScript is the empty list, no error comes from it, and
\* the reader is past the block: the body decodes as it does with a valid
\* block.
ScriptFailureIsLocal ==
  (pc = "decoded" /\ file \in BadScriptFiles /\ doc.LayoutHeader.Version >= 3)
    => LET valid == convertBjlToJsonFromBytes(enc.b)
       IN /\ dec.err = valid.err
          /\ dec.err = "" => /\ dec.design.LayoutHeader.DesignerScript = <<>>
                             /\ dec.design = WithoutScripts(valid.design)
                             /\ Len(file) - dec.offset = Len(enc.b) - valid.offset

ScriptFailureWitness ==
  /\ pc = "decoded" /\ file \in BadScriptFiles /\ file # enc.b
  /\ doc.LayoutHeader.ControlsHeaders # <<>>
  /\ dec.err = "" /\ dec.design.LayoutHeader.DesignerScript = <<>>
  /\ dec.design.Data = TitleData /\ dec.design.FontAwesome
  /\ convertBjlToJsonFromBytes(enc.b).design.LayoutHeader.DesignerScript # <<>>

\* A map of string keys and values of the closed value set (a bare null
\* included)
RECURSIVE ClosedMap(_)
ClosedValue(val) ==
  \/ val.k = "null"
  \/ val.k = "object" /\ ClosedMap(val.m)
  \/ val.k # "object" /\ ExternalValue(val)
ClosedMap(m) == \A i \in 1..Len(m) : ClosedValue(m[i].val)

\* C10: encode never raises "String not in cache" for a document of string
\* keys and closed-set values, whatever the texts of its keys, values and
\* control-header fields.
NoCacheMiss ==
  (pc # "loaded" /\ ClosedMap(doc.Data)) => enc.e # "String not in cache"

\* The document handed to encode lists its scripts in an array
HasScriptList == IsArray(doc.LayoutHeader.DesignerScript)

\* C11: a document decoded from the encoder's output has exactly one global
\* script and one script per decoded variant.
ScriptPerVariant ==
  (DecodedOwn /\ dec.err = "" /\ HasScriptList)
    => Len(dec.design.LayoutHeader.DesignerScript) = 1 + Len(dec.design.Variants)

\* The strings of a map in depth-first order of occurrence: each key, then
\* what its value holds (a bare string, an inline string, a nested map)
RECURSIVE Occurrences(_, _)
Occurrences(m, i) ==
  IF i > Len(m) THEN <<>>
  ELSE <<m[i].key>>
       \o (IF m[i].val.k = "object" THEN Occurrences(m[i].val.m, 1)
           ELSE IF m[i].val.k = "string" THEN <<m[i].val.v>>
           ELSE IF m[i].val.k = "tagged" /\ m[i].val.t = CSTRING THEN <<m[i].val.v>>
           ELSE <<>>)
       \o Occurrences(m, i + 1)

\* The strings of a map that are written by reference: each key and each
\* bare string value, in depth-first order
RECURSIVE References(_, _)
References(m, i) ==
  IF i > Len(m) THEN <<>>
  ELSE <<m[i].key>>
       \o (IF m[i].val.k = "object" THEN References(m[i].val.m, 1)
           ELSE IF m[i].val.k = "string" THEN <<m[i].val.v>>
           ELSE <<>>)
       \o References(m, i + 1)

Occurs(s, x) == \E i \in 1..Len(s) : s[i] = x

\* The first occurrences of a sequence, in order
RECURSIVE FirstSeen(_)
FirstSeen(s) ==
  IF s = <<>> THEN <<>>
  ELSE LET init == FirstSeen(SubSeq(s, 1, Len(s) - 1))
       IN IF Occurs(init, s[Len(s)]) THEN init ELSE Append(init, s[Len(s)])

\* The body string table as it stands in the encoder's output, after the
\* header
BodyTable == loadStringsCache(enc.b, HeaderLength(doc))

Encoded == pc # "loaded" /\ enc.e = ""

\* C12: the body string table of an encoding holds its strings once each, in
\* depth-first first-seen order; when it is not empty it holds every key and
\* every bare string value, and the decoder resolves every reference to the
\* string the document has at that place.
TableInFirstSeenOrder ==
  (Encoded /\ ClosedMap(doc.Data))
    => /\ BodyTable.ok
       /\ LET InTable(x) == Occurs(BodyTable.v, x)
          IN BodyTable.v = FirstSeen(SelectSeq(Occurrences(doc.Data, 1), InTable))
       /\ BodyTable.v # <<>>
            => \A i \in 1..Len(References(doc.Data, 1)) :
                 Occurs(BodyTable.v, References(doc.Data, 1)[i])
       /\ (DecodedOwn /\ dec.err = "")
            => References(dec.design.Data, 1) = References(doc.Data, 1)

\* A table of several strings, one of them referenced twice, was decoded
TableWitness ==
  /\ DecodedOwn /\ dec.err = "" /\ ClosedMap(doc.Data)
  /\ Len(BodyTable.v) >= 2
  /\ Len(References(doc.Data, 1)) > Len(FirstSeen(References(doc.Data, 1)))
  /\ \E i \in 1..Len(doc.Data) : doc.Data[i].val.k = "object"

\* C13: the body string table of an encoding holds exactly the keys and the
\* bare (cached) string values of the map; the text of an inline string
\* value is in it only when it is also a key or a cached value.
InlineNotInterned ==
  (Encoded /\ ClosedMap(doc.Data))
    => /\ BodyTable.ok
       /\ \A i \in 1..Len(BodyTable.v) :
            Occurs(References(doc.Data, 1), BodyTable.v[i])

\* The fields of the control headers in the order they are written
ControlFields(controls) ==
  Flatten([i \in 1..Len(controls) |->
             <<controls[i].Name, controls[i].JavaType, controls[i].DesignerType>>])

\* The header string table as it stands in the encoder's output
HeaderTable ==
  loadStringsCache(enc.b, IF HeaderVersion(doc.LayoutHeader) >= 4 THEN 12 ELSE 8)

\* The k-th reference of the control-header block, which follows the header
\* table and the control count
ControlIndex(k) == readInt(enc.b, HeaderTable.o + 4 * k).v

\* The first key reference of the root map, which follows the body table,
\* the variant count and the variants
FirstKeyIndex == readInt(enc.b, BodyTable.o + 4 + 12 * Len(doc.Variants)).v

Alone(call) ==
  IF call.kind = "encode"
    THEN [NoResult EXCEPT !.bytes = convertJsonToBjlToBytes(call.json).b,
                          !.err = convertJsonToBjlToBytes(call.json).e]
  ELSE [bytes |-> <<>>,
        offset |-> convertBjlToJsonFromBytes(call.bytes).offset,
        design |-> convertBjlToJsonFromBytes(call.bytes).design,
        err |-> convertBjlToJsonFromBytes(call.bytes).err]

\* C15: however the statements of the calls in progress interleave, a call
\* that has returned has returned what it returns when it runs alone.
CallsIndependent ==
  \A c \in DOMAIN calls : calls[c].pc = "done" => calls[c].result = Alone(calls[c])

\* An encode call and a decode call have both returned a result, each having
\* taken steps while the other was in progress
CallsWitness ==
  \E c \in DOMAIN calls : \E d \in DOMAIN calls :
    /\ calls[c].kind = "encode" /\ calls[d].kind = "decode"
    /\ calls[c].pc = "done" /\ calls[d].pc = "done"
    /\ calls[c].overlapped /\ calls[d].overlapped
    /\ calls[c].result.err = "" /\ calls[d].result.err = ""
    /\ calls[d].result.design.Data # <<>>

\* C16: a reader operation asking for bytes beyond the end of the buffer
\* throws, and the reader offset never exceeds the length of the buffer.
ReaderStaysInBounds ==
  /\ (reader.op # "new" /\ reader.before + reader.size > Len(reader.buffer))
       => reader.threw
  /\ reader.offset <= Len(reader.buffer)

\* The tag the format gives a value: by kind for a bare value, the declared
\* tag for a value with a kind marker
ExpectedTag(val) ==
  IF val.k = "integer" THEN 1
  ELSE IF val.k = "string" THEN 9
  ELSE IF val.k = "boolean" THEN 5
  ELSE IF val.k = "null" THEN 12
  ELSE IF val.k = "object" THEN 3
  ELSE val.t

\* The number of payload bytes the decoder reads after a tag (for a nested
\* map: after its entries), by the format
PayloadSize(val) ==
  IF val.k \in {"integer", "string"} THEN 4
  ELSE IF val.k = "boolean" THEN 1
  ELSE IF val.k = "null" THEN 0
  ELSE IF val.k = "object" THEN 5
  ELSE IF val.t = 7 THEN 4
  ELSE IF val.t = 2 THEN 4 + Len(TextEncode(val.v))
  ELSE IF val.t = 6 THEN 4
  ELSE IF val.t = 11 THEN 8
  ELSE 0

ByteAt(buf, off) == IF off >= 0 /\ off < Len(buf) THEN buf[off + 1] ELSE -1

\* Walks the entries i.. of map m laid out in buf from off, each a 4-byte
\* key reference, a tag byte and a payload: [o, ok] with ok = every tag byte
\* met is the expected one, o = the offset after the entries
RECURSIVE TagsIn(_, _, _, _)
TagsIn(buf, off, m, i) ==
  IF i > Len(m) THEN [o |-> off, ok |-> TRUE]
  ELSE IF ByteAt(buf, off + 4) # ExpectedTag(m[i].val) THEN [o |-> off, ok |-> FALSE]
  ELSE IF m[i].val.k = "object"
    THEN IF TagsIn(buf, off + 5, m[i].val.m, 1).ok
           THEN TagsIn(buf, TagsIn(buf, off + 5, m[i].val.m, 1).o + 5, m, i + 1)
         ELSE [o |-> off, ok |-> FALSE]
  ELSE TagsIn(buf, off + 5 + PayloadSize(m[i].val), m, i + 1)

\* A map as the decoder surfaces it: a bare null comes back with the null
\* marker, every other value of the closed set as it is
RECURSIVE Surfaced(_)
Surfaced(m) ==
  [i \in 1..Len(m) |->
     [key |-> m[i].key,
      val |-> IF m[i].val.k = "null" THEN Tagged(CNULL, <<>>)
              ELSE IF m[i].val.k = "object" THEN JsObject(Surfaced(m[i].val.m))
              ELSE m[i].val]]

\* Where the root map starts in an encoding: after the body table, the
\* variant count and the variants
RootMapOffset == BodyTable.o + 4 + 12 * Len(doc.Variants)

\* C17: every value of a map is written under the tag of its kind (bare
\* integer 1, bare string 9, boolean 5, null 12, nested map 3, a marked
\* value its declared tag), and the tag is followed by the payload the
\* decoder reads for it, so the map decodes to the same values.
TagSelection ==
  (Encoded /\ ClosedMap(doc.Data) /\ BodyTable.v # <<>>)
    => /\ TagsIn(enc.b, RootMapOffset, doc.Data, 1).ok
       /\ ByteAt(enc.b, TagsIn(enc.b, RootMapOffset, doc.Data, 1).o + 4) = ENDOFMAP
       /\ (DecodedOwn /\ dec.err = "") => dec.design.Data = Surfaced(doc.Data)

\* A map with a bare integer, a bare string and a boolean inside a nested
\* map was encoded and decoded
TagSelectionWitness ==
  /\ DecodedOwn /\ dec.err = "" /\ ClosedMap(doc.Data) /\ BodyTable.v # <<>>
  /\ \E i \in 1..Len(doc.Data) :
       /\ doc.Data[i].val.k = "object"
       /\ {doc.Data[i].val.m[j].val.k : j \in 1..Len(doc.Data[i].val.m)}
            = {"integer", "string", "boolean"}

\* Where the encoder wrote the tag byte ending the root map: before the
\* 4-byte footer and the two flag bytes
RootEndOffset == Len(enc.b) - 7

\* The body of an encoding as the decoder reads it
DecodedBody == readMap(enc.b, RootMapOffset, BodyTable.v)

\* C18: whatever the kinds of the values of a document's maps, the decoder
\* consumes for each entry exactly the bytes the encoder wrote for it: it
\* ends the root map on the EndOfMap byte the encoder wrote.
EntriesAligned ==
  Encoded
    => /\ DecodedBody.ok
       /\ DecodedBody.o = RootEndOffset + 1
       /\ ByteAt(enc.b, RootEndOffset) = ENDOFMAP
       /\ Len(DecodedBody.v) = Len(doc.Data)

\* The same statement for maps holding only values of the closed set
ClosedEntriesAligned == ClosedMap(doc.Data) => EntriesAligned

ClosedEntriesWitness ==
  /\ Encoded /\ ClosedMap(doc.Data) /\ Len(doc.Data) = 3
  /\ DecodedBody.o = RootEndOffset + 1

\* The version as it stands in the encoder's output
WrittenVersion == FirstInt(enc.b)

\* The header string table read where the format puts it for the written
\* version: after the grid size from version 4 on, after the header-length
\* field below
TableByVersion == loadStringsCache(enc.b, IF WrittenVersion >= 4 THEN 12 ELSE 8)

SetOf(s) == {s[i] : i \in 1..Len(s)}

\* C19: the encoder writes the int32 grid size exactly when the version it
\* writes is at least 4, and below that the header string table directly
\* follows the header-length field; the decoder reads the grid size exactly
\* when the version it reads is at least 4.
GridSizeByVersion ==
  Encoded
    => /\ WrittenVersion >= 4
            => readInt(enc.b, 8).v = OrDefault(doc.LayoutHeader.GridSize, 10)
       /\ TableByVersion.ok
       /\ SetOf(TableByVersion.v) \subseteq SetOf(ControlFields(doc.LayoutHeader.ControlsHeaders))
       /\ readInt(enc.b, TableByVersion.o).v = Len(doc.LayoutHeader.ControlsHeaders)
       /\ (DecodedOwn /\ dec.err = "")
            => /\ dec.design.LayoutHeader.GridSize
                    = (IF WrittenVersion >= 4 THEN readInt(enc.b, 8).v
                       ELSE EmptyHeader.GridSize)
               /\ Len(dec.design.LayoutHeader.ControlsHeaders)
                    = Len(doc.LayoutHeader.ControlsHeaders)
               /\ dec.design.LayoutHeader.Files = doc.LayoutHeader.Files

\* A version-3 document with control headers was encoded without a grid
\* size and decoded
GridSizeWitness ==
  /\ DecodedOwn /\ dec.err = "" /\ WrittenVersion = 3
  /\ Len(doc.LayoutHeader.ControlsHeaders) = 2
  /\ readInt(enc.b, 8).v = Len(TableByVersion.v)

\* The header of doc as the writer holds it before the backpatch
Unpatched == writeHeaderFields(doc.LayoutHeader, doc.Variants).b

\* C20: in every encoding the int32 at offset 4 is the number of bytes from
\* the end of that field to the end of the script block, which is where the
\* header ends; the backpatch changes these 4 bytes only and leaves the
\* writer offset where it was.
HeaderLengthPatched ==
  Encoded
    => /\ readInt(enc.b, 4).v = HeaderLength(doc) - 8
       /\ WrittenVersion >= 3 => readLayoutHeader(enc.b).o = 8 + readInt(enc.b, 4).v
       /\ BodyTable.ok
       /\ HeaderLength(doc) = Len(Unpatched)
       /\ \A i \in 1..Len(Unpatched) : (i < 5 \/ i > 8) => enc.b[i] = Unpatched[i]
       /\ readInt(Unpatched, 4).v = 0

\* A header with control headers, a file and a script block was encoded
HeaderLengthWitness ==
  /\ Encoded /\ Len(doc.LayoutHeader.ControlsHeaders) = 2
  /\ Len(doc.LayoutHeader.Files) = 1
  /\ readInt(enc.b, 4).v > 40
  /\ readLayoutHeader(enc.b).o = 8 + readInt(enc.b, 4).v

\* The scripts handed to the script writer for doc: the global script, then
\* one per variant (a missing one is written as "")
WrittenScripts ==
  [i \in 1..(1 + Len(doc.Variants)) |-> ScriptAt(doc.LayoutHeader.DesignerScript, i)]

\* C21: the script writer emits for a script string the base-128 varint of
\* the number of UTF-8 bytes that follow, so the script reader returns the
\* string and stops on the first byte after it.
ScriptStringExact ==
  (pc # "loaded" /\ HasScriptList)
    => \A i \in 1..Len(WrittenScripts) :
         LET s == WrittenScripts[i]
             w == writeBinaryString(s)
         IN /\ w = Varint(Len(TextEncode(s))) \o TextEncode(s)
            /\ readBinaryString(w, 0) = [v |-> s, o |-> Len(w), ok |-> TRUE]

\* The same statement for scripts whose characters take one UTF-8 byte each
AsciiScriptStringExact ==
  (\A i \in 1..Len(WrittenScripts) : \A j \in 1..Len(WrittenScripts[i]) :
      WrittenScripts[i][j] < 128)
    => ScriptStringExact

\* The caches the encoder builds for doc: header scope and body scope
EncoderHeaderCache ==
  HeaderCache(doc.LayoutHeader.ControlsHeaders, Len(doc.LayoutHeader.ControlsHeaders))
EncoderBodyCache ==
  collectStringsInOrder(doc.Data, 1, [cache |-> <<>>, order |-> <<>>]).cache

\* The encoder writes the cached strings of a scope inline
EncoderInline(cache) == Len(ObjectKeys(cache)) = 0

\* The decoder reads the cached strings of a scope inline
DecoderInline(table) == Len(table.v) = 0

\* The key the decoder reads before the EndOfMap byte of the root map
ThrowawayKey == readCachedString(enc.b, RootEndOffset - 4, BodyTable.v)

\* C22: in each scope the encoder writes cached strings inline exactly when
\* the string count it writes is 0, and the decoder reads them inline exactly
\* when the count it read is 0: on the encoder's output the decoder reads
\* every cached string, the key before EndOfMap included, in the encoder's
\* mode and ends each scope where the encoder ended it.
ModeAgreement ==
  Encoded
    => /\ TableByVersion.ok /\ BodyTable.ok
       /\ EncoderInline(EncoderHeaderCache) <=> DecoderInline(TableByVersion)
       /\ EncoderInline(EncoderBodyCache) <=> DecoderInline(BodyTable)
       /\ Len(TableByVersion.v) = Len(ObjectKeys(EncoderHeaderCache))
       /\ Len(BodyTable.v) = Len(ObjectKeys(EncoderBodyCache))
       /\ WrittenVersion >= 3
            => /\ readLayoutHeader(enc.b).ok
               /\ readLayoutHeader(enc.b).o = HeaderLength(doc)
               /\ readLayoutHeader(enc.b).v.Files = doc.LayoutHeader.Files
       /\ ClosedMap(doc.Data)
            => /\ DecodedBody.ok /\ DecodedBody.o = RootEndOffset + 1
               /\ SetOf(ObjectKeys(DecodedBody.v)) = SetOf(ObjectKeys(doc.Data))
               /\ ThrowawayKey.ok /\ ThrowawayKey.o = RootEndOffset

\* A header scope written inline (its control-header strings are names of
\* Object.prototype) beside a body scope written by index
ModeWitness ==
  /\ Encoded /\ WrittenVersion >= 3 /\ ClosedMap(doc.Data)
  /\ Len(doc.LayoutHeader.ControlsHeaders) > 0
  /\ EncoderInline(EncoderHeaderCache) /\ ~EncoderInline(EncoderBodyCache)

\* Entry i of the root map is a nested map whose entry j carries an
\* unrecognized tag, after entries of external form only
UnknownInNested(i, j) ==
  /\ i \in 1..Len(doc.Data) /\ doc.Data[i].val.k = "object"
  /\ ExternalMap(SubSeq(doc.Data, 1, i - 1))
  /\ UnknownAt(doc.Data[i].val.m, j)

\* The offset right after the unrecognized tag byte of entry j of the nested
\* map at root entry i, by the sizes of the format
AfterUnknownTag(i, j) ==
  TagsIn(enc.b,
         TagsIn(enc.b, RootMapOffset, SubSeq(doc.Data, 1, i - 1), 1).o + 5,
         SubSeq(doc.Data[i].val.m, 1, j - 1), 1).o + 5

\* The root map when the nested map of entry i is cut before its entry j
WithPartialNested(i, j) ==
  ObjSet(SubSeq(doc.Data, 1, i - 1), doc.Data[i].key,
         JsObject(SubSeq(doc.Data[i].val.m, 1, j - 1)))

\* C23: an unrecognized tag inside a nested map ends that nested map only:
\* the parent stores the entries the nested map had so far under its key and
\* goes on reading entries from the byte right after the unrecognized tag,
\* and the document decodes without an error.
NestedTruncationIsLocal ==
  \A i \in 1..Len(doc.Data) : \A j \in 1..3 :
    (DecodedOwn /\ UnknownInNested(i, j))
      => /\ dec.err = ""
         /\ HasOwn(dec.design.Data, doc.Data[i].key)
         /\ Get(dec.design.Data, doc.Data[i].key)
              = JsObject(SubSeq(doc.Data[i].val.m, 1, j - 1))
         /\ dec.design.Data
              = readMapLoop(enc.b, AfterUnknownTag(i, j), BodyTable.v,
                            WithPartialNested(i, j)).v

\* A nested map { a: -5, n: <unrecognized>, b: "a" } was decoded: the parent
\* holds the nested map cut to { a: -5 } and, read after the tag, b: "a"
NestedTruncationWitness ==
  /\ DecodedOwn /\ UnknownInNested(1, 2) /\ Len(doc.Data[1].val.m) = 3
  /\ dec.err = ""
  /\ Len(Get(dec.design.Data, doc.Data[1].key).m) = 1
  /\ HasOwn(dec.design.Data, StrB)

\* The control-header strings of doc contain no canonical array index
NoIndexLikeField ==
  \A k \in 1..Len(ControlFields(doc.LayoutHeader.ControlsHeaders)) :
    ~IsArrayIndex(ControlFields(doc.LayoutHeader.ControlsHeaders)[k])

\* C25: the index the encoder writes for a control-header field is the
\* position of that string in the header string table it writes, so the
\* decoder returns every control header with its Name, JavaType and
\* DesignerType.
HeaderTableConsistent ==
  Encoded
    => /\ Len(TableByVersion.v) > 0
            => \A k \in 1..Len(ControlFields(doc.LayoutHeader.ControlsHeaders)) :
                 /\ ControlIndex(k) \in 0..(Len(TableByVersion.v) - 1)
                 /\ TableByVersion.v[ControlIndex(k) + 1]
                      = ControlFields(doc.LayoutHeader.ControlsHeaders)[k]
       /\ (DecodedOwn /\ dec.err = "")
            => dec.design.LayoutHeader.ControlsHeaders = doc.LayoutHeader.ControlsHeaders

\* The same statement for control headers without index-like strings
PlainHeaderTableConsistent == NoIndexLikeField => HeaderTableConsistent

\* C24: every write of n bytes finds room for them (capacity >= the offset
\* before the write + n), growth keeps the bytes written before, and
\* getBuffer returns the bytes written so far, in write order, as many as
\* the offset.
WriterGrowth ==
  /\ writer.offset <= Len(writer.buffer)
  /\ writer.op \notin {"new", "getBuffer"}
       => writer.before + writer.size <= Len(writer.buffer)
  /\ Len(writer.log) = writer.offset
  /\ getBuffer(writer.buffer, writer.offset) = writer.log
  /\ writer.op = "getBuffer" => writer.out = writer.log

\* A writer that started with room for 1 byte has grown twice and was read
WriterGrowthWitness ==
  /\ writer.op = "getBuffer" /\ writer.offset >= 5
  /\ Len(writer.buffer) > 10 /\ writer.out # <<>> /\ writer.out[1] = 200

\* C26: an engine add (addComponent, addBelow/Right/Above/Left, duplicate)
\* that follows any adds, z-order operations, deletes and pastes stores the
\* new view under an unused key: there is exactly one child more, and every
\* child there was before is still there.
AddKeepsChildren ==
  designer.op = "add" =>
    /\ Len(designer.kids) = Len(designer.before) + 1
    /\ Names(designer.before) \subseteq Names(designer.kids)
    /\ \A i \in 1..Len(designer.before) :
         /\ HasOwn(designer.kids, designer.before[i].key)
         /\ Get(designer.kids, designer.before[i].key).name = designer.before[i].val.name

\* The same where no child was deleted or pasted: the keys are "0" .. "n-1"
AddKeepsChildrenOfDenseKeys ==
  (designer.op = "add"
     /\ \A i \in 1..Len(designer.before) : designer.before[i].key = IndexKey(i - 1))
  => /\ Len(designer.kids) = Len(designer.before) + 1
     /\ Names(designer.before) \subseteq Names(designer.kids)

\* An add onto three children with the keys "0", "1", "2"
AddKeepsChildrenOfDenseKeysWitness ==
  /\ designer.op = "add" /\ Len(designer.kids) = 4
  /\ \A i \in 1..Len(designer.before) : designer.before[i].key = IndexKey(i - 1)

\* The views of before with their sizes not smaller in kids
NotSmaller(before, kids) ==
  \A i \in 1..Len(before) :
    findView(kids, before[i].val.name) # 0
      => /\ kids[findView(kids, before[i].val.name)].val.width >= before[i].val.width
         /\ kids[findView(kids, before[i].val.name)].val.height >= before[i].val.height

\* C27: when addComponent places a view inside a parent other than "Main",
\* the width and the height of the parent after the call are each at least
\* what they were before the call, wherever the parent lies and whatever its
\* size (a parent reaching beyond the variant bounds included).
AutoExpandOnlyExpands ==
  designer.op = "addInside" => NotSmaller(designer.before, designer.kids)

\* The same for a parent that lies within the variant bounds
AutoExpandWithinBoundsOnlyExpands ==
  (designer.op = "addInside"
     /\ \A i \in 1..Len(designer.before) :
          /\ designer.before[i].val.left + designer.before[i].val.width <= variantWidth
          /\ designer.before[i].val.top + designer.before[i].val.height <= variantHeight)
  => NotSmaller(designer.before, designer.kids)

\* C28: after a confirmed clear(), an undo restores the layout Data there was
\* immediately before the clear.
ClearCanBeUndone ==
  (designer.op = "undo" /\ designer.prev = "clear") => designer.kids = designer.saved

\* What the undo after a clear() does: nothing, the history being empty
UndoAfterClearDoesNothing ==
  (designer.op = "undo" /\ designer.prev = "clear")
    => designer.kids = <<>> /\ designer.history = <<>> /\ designer.redoStack = <<>>

\* C30: after a user action that changes the layout Data (nudge, drag,
\* resize, paste, delete, bring to front, send to back) the redo stack is
\* empty.
NewActionClearsRedo ==
  (designer.op \in {"nudge", "drag", "resize", "paste", "delete", "bringToFront",
                    "sendToBack"}
     /\ designer.kids # designer.before)
  => designer.redoStack = <<>>

\* The same for the actions other than resize
SavedActionClearsRedo ==
  (designer.op \in {"nudge", "drag", "paste", "delete", "bringToFront", "sendToBack"}
     /\ designer.kids # designer.before)
  => designer.redoStack = <<>>

\* C29: in every state reached by saveState, undo, redo and clear the undo
\* history holds at most 50 snapshots, and the undo history and the redo
\* stack together hold at most 50.
HistoryBounded ==
  /\ Len(designer.history) <= HistoryLimit
  /\ Len(designer.history) + Len(designer.redoStack) <= HistoryLimit

\* A redo has pushed the 50th snapshot onto the history, with snapshots left
\* to redo before it
HistoryBoundedWitness ==
  /\ designer.op = "redo"
  /\ Len(designer.history) = HistoryLimit
  /\ Len(designer.history) + Len(designer.redoStack) = HistoryLimit

=============================================================================
